---- MODULE Spec2Model ----
(***************************************************************************)
(* Model of libraries/ntc.py: the concurrent task dispatcher               *)
(* process_concurrent_tasks (one worker thread per device, a shared task   *)
(* list popped under a mutex, a 'ready' callback called under the same     *)
(* mutex, a 'terminate' flag set by SIGINT, by a failing task or by a      *)
(* failing callback), and of run(args): one execution of the external tool *)
(* and the interpretation of its output (RunSpec: the whole call;          *)
(* ParseSpec: the call from the return of the process on, for longer        *)
(* outputs).                                                               *)
(***************************************************************************)
EXTENDS Integers, Sequences, FiniteSets, TLC

\* ------------------------------------------------------------------ bounds
\* longest task list
MaxTasks == 3
\* longest device list
MaxDevices == 2
\* largest len(tasks) + len(devices)
MaxLoad == 5
\* most lines in the standard output of one execution of the tool
MaxLines == 2
\* most lines in an output made of experiment, training and quality lines only
MaxEvents == 5

\* ------------------------------------------------------------- program state
VARIABLES
    tasks,              \* the caller's task list, popped from the front (task ids)
    shape,              \* shape[j]: what the j-th element of the input list is
    originalTaskCount,  \* len(tasks) at the call
    nDev,               \* len(devices): one worker thread per device
    mutex,              \* threading.Lock: 0 = free, w = held by worker w
    terminate,          \* the cancellation flag
    tasksCompleted,     \* the completed-count
    pc,                 \* pc[w]: position of worker w in _thread_function
    task,               \* task[w]: worker w's local 'task' (0 = None)
    cudaDevice,         \* cudaDevice[j]: args.cudaDevice of task j (-1 = None)
    pcMain,             \* position of the calling (main) thread
    idx,                \* main thread's loop index (launch / join)
    mainExc,            \* an exception is propagating through the finally block
    retval,             \* the value returned ("none" before the return)
    handler,            \* the process-wide SIGINT handler: "old" or "ours"
    inHandler,          \* the main thread is inside _sigint_handler, before its print
    \* ---- history (observations of the run, never read by the program)
    sigints,            \* the quietest circumstance in which _sigint_handler has run
    outcome,            \* outcome[j]: "none", "ok", "fail" (non-zero exit), "exc"
    execCount,          \* execCount[j]: external processes spawned for task j
    claimLog,           \* one record per queue pop, in order
    cbLog,              \* one record per 'ready' invocation, in order
    cbRaised,           \* tasks whose 'ready' invocation raised
    diag,               \* kinds of diagnostics written to stderr / stdout so far
    \* ---- one call of run(args)
    runPc,              \* position in run(args)
    args,               \* the Arguments passed to run
    command,            \* the command line built from args
    output,             \* what subprocess.run returned (returncode, stdout, stderr)
    raised,             \* the exception that left run(args), if any
    result,             \* the Result under construction / returned
    compressionRun,     \* the CompressionRun in progress
    lineNo              \* position of the loop over output.stdout.splitlines()

vars == <<tasks, shape, originalTaskCount, nDev, mutex, terminate, tasksCompleted,
          pc, task, cudaDevice, pcMain, idx, mainExc, retval, handler, inHandler, sigints,
          outcome, execCount, claimLog, cbLog, cbRaised, diag,
          runPc, args, command, output, raised, result, compressionRun, lineNo>>

\* the state of process_concurrent_tasks
dispatcherVars == <<tasks, shape, originalTaskCount, nDev, mutex, terminate,
                    tasksCompleted, pc, task, cudaDevice, pcMain, idx, mainExc, retval,
                    handler, inHandler, sigints, outcome, execCount, claimLog, cbLog,
                    cbRaised, diag>>

\* the state of one call of run(args)
runVars == <<runPc, args, command, output, raised, result, compressionRun, lineNo>>

Workers == 1..nDev
Jobs == 1..originalTaskCount

\* devices[w]: the 0-based CUDA device index given to worker w
DeviceOf(w) == w - 1

\* Mutant: the validation loop accepts every element.
ValidShapeAny(s) == TRUE

\* A task is an Arguments instance, a tuple (Arguments, ...), or malformed.
ValidShape(s) == s \in {"args", "tuple"}

\* ------------------------------------------------------- run(args): the data
\* Python's None in an Optional numeric field (every number the tool's output can
\* set is non-negative: no pattern admits a sign)
None == -1

\* float('inf')
Infinity == 1000000000

\* An Optional list or tuple: <<>> for None, <<x>> for the value x.
NoList == <<>>

\* A numeric token of the output text, by the characters it is made of: "int" (digits
\* only, value v), "dec" (digits and one dot, value v in hundredths), "inf" (the word
\* inf), "neg" (a decimal number with a minus sign).
IntTok(n) == [k |-> "int", v |-> n]
DecTok(h) == [k |-> "dec", v |-> h]
InfTok == [k |-> "inf", v |-> 0]
NegTok(h) == [k |-> "neg", v |-> h]

\* \d+
IsDigits(t) == t.k = "int"
\* [0-9\.]+
IsDecimal(t) == t.k \in {"int", "dec"}
\* Mutant: the PSNR groups admit numbers only.
IsDecimalOnly(t) == t.k \in {"int", "dec"}

\* [0-9\.]+|inf
IsDecimalOrInf(t) == t.k \in {"int", "dec", "inf"}

\* [A-Z_]+ and \w+, among the words of the model's output lines
IsUpperWord(t) == t \in {"NTC_NETWORK_SMALL", "NTC_NETWORK_XLARGE"}
IsWord(t) == IsUpperWord(t) \/ t \in {"FP8", "INT8", "fp16"}

\* int(text) of a token that matched \d+
IntOf(t) == t.v

\* Mutant: the word inf is converted to zero.
FloatOfFinite(t) ==
    IF t.k = "inf" THEN 0
    ELSE IF t.k = "int" THEN 100 * t.v
    ELSE t.v

\* float(text), in hundredths
FloatOf(t) ==
    IF t.k = "inf" THEN Infinity
    ELSE IF t.k = "int" THEN 100 * t.v
    ELSE t.v

\* A line of the output: the pattern whose literal text it starts with ("other": none
\* of them, "": the empty line) and the tokens found where the pattern has its groups.
Line(pat, f) == [pat |-> pat, f |-> f]

\* lines 224-228, 230-244: Regex.parse(line) is not None
Matches(l) ==
    CASE l.pat = "_baseCompRateRegex" -> IsDecimal(l.f[1])
      [] l.pat = "_bppRegex" -> IsDecimal(l.f[1]) /\ IsDecimalOrInf(l.f[2])
      [] l.pat = "_bcQualityRegex" -> IsDecimalOrInf(l.f[1]) /\ IsDecimal(l.f[2])
      [] l.pat = "_cudaDecompressionTimeRegex" -> IsDecimal(l.f[1])
      [] l.pat = "_dimensionsRegex" -> \A i \in 1..4 : IsDigits(l.f[i])
      [] l.pat = "_experimentRegex" -> IsDigits(l.f[1]) /\ IsDecimal(l.f[2])
      [] l.pat = "_fileSizeRegex" -> IsDigits(l.f[1]) /\ IsDecimal(l.f[2])
      [] l.pat = "_graphicsDecompressionTimeRegex" -> IsDigits(l.f[1]) /\ IsDecimal(l.f[2])
      [] l.pat = "_latentShapeRegex" -> \A i \in 1..5 : IsDigits(l.f[i])
      [] l.pat = "_mipRegex" -> IsDigits(l.f[1]) /\ IsDecimalOrInf(l.f[2])
      [] l.pat = "_networkVersionRegex" -> IsUpperWord(l.f[1])
      [] l.pat = "_overallPsnrRegex" -> IsWord(l.f[1]) /\ IsDecimalOrInf(l.f[2])
      [] l.pat = "_stepRegex" ->
            IsDigits(l.f[1]) /\ IsDecimal(l.f[2]) /\ IsDecimalOrInf(l.f[3])
      [] l.pat = "_systemRegex" ->
            l.f[1] # "" /\ l.f[2] # "" /\ \A i \in 3..6 : l.f[i] \in {"Y", "N"}
      [] OTHER -> FALSE

\* Mutant: the list is started anew with each element.
CreateOrReplaceList(lst, x) == <<(<<x>>)>>

\* Mutant: the element is put at the front of the list.
CreateOrPrependList(lst, x) ==
    IF lst = NoList THEN <<(<<x>>)>> ELSE <<(<<x>> \o lst[1])>>

\* lines 214-218: _create_or_append_list
CreateOrAppendList(lst, x) ==
    IF lst = NoList THEN <<(<<x>>)>> ELSE <<Append(lst[1], x)>>

\* Mutant: the run in progress is appended whatever its learning curve.
TruthyAlways(lst) == TRUE

\* 'if compressionRun.learningCurve:' (neither None nor empty)
Truthy(lst) == lst # NoList /\ lst[1] # <<>>

\* lines 171-173: CompressionRun(bitsPerPixel=bpp)
NewCompressionRun(bpp) == [bitsPerPixel |-> bpp, learningCurve |-> NoList]

\* Mutant: the Result is created without the rate of the arguments.
NewResultUnset(bpp) ==
    [overallPsnr |-> None, overallPsnrFP8 |-> None, perMipPsnr |-> NoList,
     bitsPerPixel |-> None, combinedBcPsnr |-> None, combinedBcBitsPerPixel |-> None,
     compressionRuns |-> NoList, decompressionTime |-> None, savedFileSize |-> None,
     savedFileBpp |-> None, gpuName |-> "", graphicsApi |-> "", gpuFeatures |-> NoList,
     dimensions |-> NoList, channels |-> None, mipLevels |-> None,
     latentShape |-> NoList, networkVersion |-> ""]

\* Mutant: the numeric fields start at zero instead of None.
NewResultZeroed(bpp) ==
    [overallPsnr |-> 0, overallPsnrFP8 |-> 0, perMipPsnr |-> NoList,
     bitsPerPixel |-> bpp, combinedBcPsnr |-> 0, combinedBcBitsPerPixel |-> 0,
     compressionRuns |-> NoList, decompressionTime |-> 0, savedFileSize |-> 0,
     savedFileBpp |-> 0, gpuName |-> "", graphicsApi |-> "", gpuFeatures |-> NoList,
     dimensions |-> NoList, channels |-> 0, mipLevels |-> 0,
     latentShape |-> NoList, networkVersion |-> ""]

\* lines 176-197, 259-262: Result(bitsPerPixel=bpp) (elapsedTime, a difference of
\* clock readings, is not modelled)
NewResult(bpp) ==
    [overallPsnr |-> None, overallPsnrFP8 |-> None, perMipPsnr |-> NoList,
     bitsPerPixel |-> bpp, combinedBcPsnr |-> None, combinedBcBitsPerPixel |-> None,
     compressionRuns |-> NoList, decompressionTime |-> None, savedFileSize |-> None,
     savedFileBpp |-> None, gpuName |-> "", graphicsApi |-> "", gpuFeatures |-> NoList,
     dimensions |-> NoList, channels |-> None, mipLevels |-> None,
     latentShape |-> NoList, networkVersion |-> ""]

\* Mutant: every feature is listed, whatever the letters.
GpuFeaturesAll(f) == <<"DP4a", "FP16", "CoopVecInt8", "CoopVecFP8">>

\* lines 321-325: the feature list of a system line
GpuFeatures(f) ==
    (IF f[3] = "Y" THEN <<"DP4a">> ELSE <<>>)
    \o (IF f[4] = "Y" THEN <<"FP16">> ELSE <<>>)
    \o (IF f[5] = "Y" THEN <<"CoopVecInt8">> ELSE <<>>)
    \o (IF f[6] = "Y" THEN <<"CoopVecFP8">> ELSE <<>>)

\* Mutant: no kind of weights is taken for FP8.
IsFP8Never(type) == FALSE

\* line 309: m.type == 'FP8'
IsFP8(type) == type = "FP8"

\* lines 267-325: the Result after the loop body has handled line l
ResultAfter(r, c, l) ==
    IF ~Matches(l) THEN r
    ELSE CASE l.pat = "_baseCompRateRegex" ->
                [r EXCEPT !.bitsPerPixel = FloatOf(l.f[1])]
           [] l.pat = "_bppRegex" ->
                [r EXCEPT !.bitsPerPixel = FloatOf(l.f[1]),
                          !.overallPsnr = FloatOf(l.f[2])]
           [] l.pat = "_bcQualityRegex" ->
                [r EXCEPT !.combinedBcPsnr = FloatOf(l.f[1]),
                          !.combinedBcBitsPerPixel = FloatOf(l.f[2])]
           [] l.pat = "_cudaDecompressionTimeRegex" ->
                [r EXCEPT !.decompressionTime = FloatOf(l.f[1])]
           [] l.pat = "_dimensionsRegex" ->
                [r EXCEPT !.dimensions = <<(<<IntOf(l.f[1]), IntOf(l.f[2])>>)>>,
                          !.channels = IntOf(l.f[3]),
                          !.mipLevels = IntOf(l.f[4])]
           [] l.pat = "_experimentRegex" ->
                IF Truthy(c.learningCurve)
                  THEN [r EXCEPT !.compressionRuns = CreateOrAppendList(@, c)]
                  ELSE r
           [] l.pat = "_fileSizeRegex" ->
                [r EXCEPT !.savedFileSize = IntOf(l.f[1]),
                          !.savedFileBpp = FloatOf(l.f[2])]
           [] l.pat = "_graphicsDecompressionTimeRegex" ->
                [r EXCEPT !.decompressionTime = FloatOf(l.f[2])]
           [] l.pat = "_latentShapeRegex" ->
                [r EXCEPT !.latentShape =
                    <<[gridSizeScale |-> IntOf(l.f[1]), highResFeatures |-> IntOf(l.f[2]),
                       lowResFeatures |-> IntOf(l.f[3]), highResQuantBits |-> IntOf(l.f[4]),
                       lowResQuantBits |-> IntOf(l.f[5])]>>]
           [] l.pat = "_mipRegex" ->
                [r EXCEPT !.perMipPsnr = CreateOrAppendList(@, FloatOf(l.f[2]))]
           [] l.pat = "_networkVersionRegex" ->
                [r EXCEPT !.networkVersion = l.f[1]]
           [] l.pat = "_overallPsnrRegex" ->
                IF IsFP8(l.f[1])
                  THEN [r EXCEPT !.overallPsnrFP8 = FloatOf(l.f[2])]
                  ELSE [r EXCEPT !.overallPsnr = FloatOf(l.f[2])]
           [] l.pat = "_stepRegex" -> r
           [] l.pat = "_systemRegex" ->
                [r EXCEPT !.gpuName = l.f[1], !.graphicsApi = l.f[2],
                          !.gpuFeatures = <<GpuFeatures(l.f)>>]

\* Mutant: an experiment line does not start a new CompressionRun.
RunAfterKeepsRun(c, l) ==
    IF ~Matches(l) THEN c
    ELSE CASE l.pat = "_stepRegex" ->
                [c EXCEPT !.learningCurve =
                    CreateOrAppendList(@, <<IntOf(l.f[1]), FloatOf(l.f[2]), FloatOf(l.f[3])>>)]
           [] OTHER -> c

\* lines 286-289, 314-316: the CompressionRun in progress after line l
RunAfter(c, l) ==
    IF ~Matches(l) THEN c
    ELSE CASE l.pat = "_experimentRegex" -> NewCompressionRun(FloatOf(l.f[2]))
           [] l.pat = "_stepRegex" ->
                [c EXCEPT !.learningCurve =
                    CreateOrAppendList(@, <<IntOf(l.f[1]), FloatOf(l.f[2]), FloatOf(l.f[3])>>)]
           [] OTHER -> c

\* Mutant: the run in progress at the end of the output is dropped.
SealedNever(r, c) == r

\* lines 327-328: the in-progress run is appended if it has samples
Sealed(r, c) ==
    IF Truthy(c.learningCurve)
      THEN [r EXCEPT !.compressionRuns = CreateOrAppendList(@, c)]
      ELSE r

\* value.split(' ') of a text given as its characters, 'cur' being the piece begun
RECURSIVE SplitOnSpace(_, _)
SplitOnSpace(chars, cur) ==
    IF chars = <<>> THEN <<cur>>
    ELSE IF Head(chars) = " " THEN <<cur>> \o SplitOnSpace(Tail(chars), "")
    ELSE SplitOnSpace(Tail(chars), cur \o Head(chars))

\* str(x) of a float x given in hundredths (4.0 -> '4.0', 2.5 -> '2.5', 0.25 -> '0.25')
FloatStr(h) ==
    ToString(h \div 100) \o "."
    \o (IF (h % 100) % 10 = 0 THEN ToString((h % 100) \div 10)
        ELSE IF h % 100 < 10 THEN "0" \o ToString(h % 100)
        ELSE ToString(h % 100))

\* line 137: get_command_line raises ValueError
CommandLineRaises(a) == a.graphicsApi \notin {"", "vk", "dx12"}

\* lines 124-167: Arguments.get_command_line, for the fields of the model's Arguments
\* in their declaration order (tool, customArguments, graphicsApi, noCoopVec,
\* bitsPerPixel, compress, cudaDevice); every other field keeps its default and adds
\* nothing
GetCommandLine(a) ==
    <<a.tool>>
    \o SplitOnSpace(a.customArguments, "")
    \o (IF a.graphicsApi = "vk" THEN <<"--vk">>
        ELSE IF a.graphicsApi = "dx12" THEN <<"--dx12">> ELSE <<>>)
    \o (IF a.noCoopVec THEN <<"--no-coopVec">> ELSE <<>>)
    \o (IF a.bitsPerPixel = None THEN <<>>
        ELSE <<"--bitsPerPixel", FloatStr(a.bitsPerPixel)>>)
    \o (IF a.compress THEN <<"--compress">> ELSE <<>>)
    \o (IF a.cudaDevice = None THEN <<>>
        ELSE <<"--cudaDevice", ToString(a.cudaDevice)>>)

\* The captured standard output: its lines, each followed by a newline except that
\* the last one is when 'eol' is false (then the last line is not empty).
Stdout(lines, eol) == [lines |-> lines, eol |-> eol]

\* str.splitlines(): the lines without their newlines; a final newline opens no line
SplitLines(text) == text.lines

\* Values of the variables of run(args) while no call is in progress.
NoArguments ==
    [tool |-> "", customArguments |-> <<>>, graphicsApi |-> "", noCoopVec |-> FALSE,
     bitsPerPixel |-> None, compress |-> FALSE, cudaDevice |-> None]
NoOutput == [returncode |-> 0, stdout |-> Stdout(<<>>, FALSE), stderr |-> ""]
NoError ==
    [type |-> "", command |-> <<>>, returncode |-> 0,
     stdout |-> Stdout(<<>>, FALSE), stderr |-> ""]
\* 'result' is <<>> until line 259 creates the Result r, and <<r>> from then on.
NoResult == NoList

\* run(args) is not being called.
RunNotCalled ==
    /\ runPc = "idle"
    /\ args = NoArguments
    /\ command = <<>>
    /\ output = NoOutput
    /\ raised = NoError
    /\ result = NoResult
    /\ compressionRun = NewCompressionRun(None)
    /\ lineNo = 0

\* Shapes of an input list of n tasks with at most one malformed element: a tuple
\* whose first member is not Arguments, an empty tuple (task[0] raises IndexError in
\* line 410), or an object that is neither a tuple nor Arguments.
ShapeLists(n) ==
    { [j \in 1..n |-> IF j = bad THEN kind
                      ELSE IF j % 2 = 0 THEN "tuple" ELSE "args"] :
        bad \in 0..n, kind \in {"badtuple", "emptytuple", "other"} }

Init ==
    /\ originalTaskCount \in 0..MaxTasks
    /\ nDev \in 0..MaxDevices
    /\ originalTaskCount + nDev <= MaxLoad
    /\ tasks = [j \in 1..originalTaskCount |-> j]
    /\ shape \in ShapeLists(originalTaskCount)
    /\ mutex = 0
    /\ terminate = FALSE
    /\ tasksCompleted = 0
    /\ pc = [w \in 1..nDev |-> "idle"]
    /\ task = [w \in 1..nDev |-> 0]
    /\ cudaDevice = [j \in 1..originalTaskCount |-> -1]
    /\ pcMain = "validate"
    /\ idx = 1
    /\ mainExc = FALSE
    /\ retval = "none"
    /\ handler = "old"
    /\ inHandler = FALSE
    /\ sigints = "none"
    /\ outcome = [j \in 1..originalTaskCount |-> "none"]
    /\ execCount = [j \in 1..originalTaskCount |-> 0]
    /\ claimLog = <<>>
    /\ cbLog = <<>>
    /\ cbRaised = {}
    /\ diag = {}
    /\ RunNotCalled

\* ------------------------------------------------------------ the flag
KeepFlag == UNCHANGED terminate

\* Mutant: the flag is flipped instead of set.
SetFlagToggles == terminate' = ~terminate

\* terminate = True (lines 358, 390, 403)
SetFlag == terminate' = TRUE

\* Worker w holds a claimed job that has not finished (its 'ready' has not come back).
Holding(w) ==
    \/ pc[w] \in {"bind", "start", "running", "lock2", "incr", "call", "ready"}
    \/ pc[w] = "unlock1" /\ task[w] # 0

\* No job has been claimed and no worker is past its flag check (line 364).
NotYetLooping ==
    /\ claimLog = <<>>
    /\ \A w \in Workers : pc[w] \in {"idle", "check", "stopped"}

\* The circumstance of a SIGINT delivery (history): the handler may run any number
\* of times, and the quietest circumstance so far is kept ("early" before "idle"
\* before "busy"; "none": the handler has not run).
SigintCircumstance ==
    IF sigints = "early" \/ NotYetLooping THEN "early"
    ELSE IF sigints = "idle" \/ \A w \in Workers : ~Holding(w) THEN "idle"
    ELSE "busy"

\* ------------------------------------------------------------ the mutex
\* Mutant: acquire that does not wait for the holder.
LockFreeAlways(m) == TRUE

\* threading.Lock: acquire blocks until the lock is free.
LockFree(m) == m = 0

\* Mutant: the front task is read but not deleted.
PopFrontKeeps(q) == q

\* Mutant: the last element is deleted instead of the first (del tasks[-1]).
PopFrontDropsLast(q) == SubSeq(q, 1, Len(q) - 1)

\* del tasks[0]
PopFront(q) == Tail(q)

\* ------------------------------------------------------- the main thread
\* lines 408-413: validate the tasks before starting threads
Validate ==
    /\ pcMain = "validate"
    /\ ~inHandler
    /\ pcMain' = IF \A j \in Jobs : ValidShape(shape[j]) THEN "install" ELSE "raised"
    /\ UNCHANGED <<runVars, inHandler, tasks, shape, originalTaskCount, nDev, mutex, tasksCompleted, pc,
                   task, cudaDevice, idx, mainExc, retval, handler, sigints,
                   outcome, execCount, claimLog, cbLog, cbRaised, diag>>
    /\ KeepFlag

\* lines 417-418: old_handler = getsignal(SIGINT); signal(SIGINT, _sigint_handler)
Install ==
    /\ pcMain = "install"
    /\ ~inHandler
    /\ handler' = "ours"
    /\ pcMain' = "launch"
    /\ idx' = 1
    /\ UNCHANGED <<runVars, inHandler, tasks, shape, originalTaskCount, nDev, mutex, tasksCompleted, pc,
                   task, cudaDevice, mainExc, retval, sigints,
                   outcome, execCount, claimLog, cbLog, cbRaised, diag>>
    /\ KeepFlag

\* lines 422-425: thread.start() for the next device
LaunchThread ==
    /\ pcMain = "launch"
    /\ ~inHandler
    /\ idx <= nDev
    /\ pc' = [pc EXCEPT ![idx] = "check"]
    /\ idx' = idx + 1
    /\ UNCHANGED <<runVars, inHandler, tasks, shape, originalTaskCount, nDev, mutex, tasksCompleted,
                   task, cudaDevice, pcMain, mainExc, retval, handler, sigints,
                   outcome, execCount, claimLog, cbLog, cbRaised, diag>>
    /\ KeepFlag

\* line 424: thread.start() raises (the interpreter cannot start a new thread);
\* the exception leaves the try block through 'finally'
LaunchFails ==
    /\ pcMain = "launch"
    /\ ~inHandler
    /\ idx <= nDev
    /\ mainExc' = TRUE
    /\ pcMain' = "restore"
    /\ UNCHANGED <<runVars, inHandler, tasks, shape, originalTaskCount, nDev, mutex, tasksCompleted, pc,
                   task, cudaDevice, idx, retval, handler, sigints,
                   outcome, execCount, claimLog, cbLog, cbRaised, diag>>
    /\ KeepFlag

\* line 428: all threads started, begin joining
BeginJoin ==
    /\ pcMain = "launch"
    /\ ~inHandler
    /\ idx > nDev
    /\ pcMain' = "join"
    /\ idx' = 1
    /\ UNCHANGED <<runVars, inHandler, tasks, shape, originalTaskCount, nDev, mutex, tasksCompleted, pc,
                   task, cudaDevice, mainExc, retval, handler, sigints,
                   outcome, execCount, claimLog, cbLog, cbRaised, diag>>
    /\ KeepFlag

\* Mutant: the thread is not waited for (join with a zero timeout).
JoinNoWait ==
    /\ pcMain = "join"
    /\ ~inHandler
    /\ idx <= nDev
    /\ idx' = idx + 1
    /\ UNCHANGED <<runVars, inHandler, tasks, shape, originalTaskCount, nDev, mutex, tasksCompleted, pc,
                   task, cudaDevice, pcMain, mainExc, retval, handler, sigints,
                   outcome, execCount, claimLog, cbLog, cbRaised, diag>>
    /\ KeepFlag

\* line 429: thread.join() returns once that thread's function has returned
Join ==
    /\ pcMain = "join"
    /\ ~inHandler
    /\ idx <= nDev
    /\ pc[idx] = "stopped"
    /\ idx' = idx + 1
    /\ UNCHANGED <<runVars, inHandler, tasks, shape, originalTaskCount, nDev, mutex, tasksCompleted, pc,
                   task, cudaDevice, pcMain, mainExc, retval, handler, sigints,
                   outcome, execCount, claimLog, cbLog, cbRaised, diag>>
    /\ KeepFlag

EndJoin ==
    /\ pcMain = "join"
    /\ ~inHandler
    /\ idx > nDev
    /\ pcMain' = "restore"
    /\ UNCHANGED <<runVars, inHandler, tasks, shape, originalTaskCount, nDev, mutex, tasksCompleted, pc,
                   task, cudaDevice, idx, mainExc, retval, handler, sigints,
                   outcome, execCount, claimLog, cbLog, cbRaised, diag>>
    /\ KeepFlag

\* Mutant: the handler is restored after the try block, without 'finally'.
RestoreOnlyOnReturn ==
    /\ pcMain = "restore"
    /\ ~inHandler
    /\ handler' = IF mainExc THEN handler ELSE "old"
    /\ pcMain' = IF mainExc THEN "raised" ELSE "return"
    /\ UNCHANGED <<runVars, inHandler, tasks, shape, originalTaskCount, nDev, mutex, tasksCompleted, pc,
                   task, cudaDevice, idx, mainExc, retval, sigints,
                   outcome, execCount, claimLog, cbLog, cbRaised, diag>>
    /\ KeepFlag

\* lines 430-431: finally: signal(SIGINT, old_handler); a pending exception goes on
Restore ==
    /\ pcMain = "restore"
    /\ ~inHandler
    /\ handler' = "old"
    /\ pcMain' = IF mainExc THEN "raised" ELSE "return"
    /\ UNCHANGED <<runVars, inHandler, tasks, shape, originalTaskCount, nDev, mutex, tasksCompleted, pc,
                   task, cudaDevice, idx, mainExc, retval, sigints,
                   outcome, execCount, claimLog, cbLog, cbRaised, diag>>
    /\ KeepFlag

\* Mutant: the call returns False whatever the flag.
ReturnAlwaysFalse ==
    /\ pcMain = "return"
    /\ ~inHandler
    /\ retval' = "False"
    /\ pcMain' = "returned"
    /\ UNCHANGED <<runVars, inHandler, tasks, shape, originalTaskCount, nDev, mutex, tasksCompleted, pc,
                   task, cudaDevice, idx, mainExc, handler, sigints,
                   outcome, execCount, claimLog, cbLog, cbRaised, diag>>
    /\ KeepFlag

\* line 433: return terminate
Return ==
    /\ pcMain = "return"
    /\ ~inHandler
    /\ retval' = IF terminate THEN "True" ELSE "False"
    /\ pcMain' = "returned"
    /\ UNCHANGED <<runVars, inHandler, tasks, shape, originalTaskCount, nDev, mutex, tasksCompleted, pc,
                   task, cudaDevice, idx, mainExc, handler, sigints,
                   outcome, execCount, claimLog, cbLog, cbRaised, diag>>
    /\ KeepFlag

\* Mutant: the handler assigns a local 'terminate' (no nonlocal declaration).
SigintHandlerLocal ==
    /\ handler = "ours"
    /\ ~inHandler
    /\ sigints' = SigintCircumstance
    /\ inHandler' = ("sigint" \notin diag)
    /\ UNCHANGED <<runVars, tasks, shape, originalTaskCount, nDev, mutex, tasksCompleted, pc,
                   task, cudaDevice, pcMain, idx, mainExc, retval, handler,
                   outcome, execCount, claimLog, cbLog, cbRaised, diag>>
    /\ KeepFlag

\* The handler has run to its end before: the flag is set and the note printed, so
\* that another run of it changes nothing between its two statements.
HandlerRanBefore == terminate /\ "sigint" \in diag

\* lines 356-358: _sigint_handler is entered in the main thread, whenever SIGINT
\* arrives while it is installed, and sets the flag; the workers run on until it
\* has printed its note (a run that repeats an earlier one is taken in one step)
SigintHandler ==
    /\ handler = "ours"
    /\ ~inHandler
    /\ sigints' = SigintCircumstance
    /\ SetFlag
    /\ inHandler' = ~HandlerRanBefore
    /\ UNCHANGED <<runVars, tasks, shape, originalTaskCount, nDev, mutex, tasksCompleted, pc,
                   task, cudaDevice, pcMain, idx, mainExc, retval, handler,
                   outcome, execCount, claimLog, cbLog, cbRaised, diag>>

\* Mutant: the handler returns without a word.
SigintHandlerSilent ==
    /\ inHandler
    /\ inHandler' = FALSE
    /\ UNCHANGED <<runVars, tasks, shape, originalTaskCount, nDev, mutex, tasksCompleted, pc,
                   task, cudaDevice, pcMain, idx, mainExc, retval, handler, sigints,
                   outcome, execCount, claimLog, cbLog, cbRaised, diag>>
    /\ KeepFlag

\* line 359: the handler prints its note and returns to the interrupted main thread
SigintHandlerPrints ==
    /\ inHandler
    /\ diag' = diag \cup {"sigint"}
    /\ inHandler' = FALSE
    /\ UNCHANGED <<runVars, tasks, shape, originalTaskCount, nDev, mutex, tasksCompleted, pc,
                   task, cudaDevice, pcMain, idx, mainExc, retval, handler, sigints,
                   outcome, execCount, claimLog, cbLog, cbRaised>>
    /\ KeepFlag

\* ------------------------------------------------- _thread_function(device)
mainVars == <<pcMain, idx, mainExc, retval, handler, inHandler, sigints>>
inputVars == <<shape, originalTaskCount, nDev>>

\* Mutant: the loop never looks at the flag (while True).
LoopConditionAlways(t) == TRUE

\* line 364: the loop condition 'not terminate'
LoopCondition(t) == ~t

\* line 364: while not terminate; line 366: task = None
Check(w) ==
    /\ pc[w] = "check"
    /\ IF LoopCondition(terminate)
         THEN /\ pc' = [pc EXCEPT ![w] = "lock1"]
              /\ task' = [task EXCEPT ![w] = 0]
         ELSE /\ pc' = [pc EXCEPT ![w] = "stopped"]
              /\ task' = task
    /\ UNCHANGED <<runVars, mainVars, inputVars, tasks, mutex, tasksCompleted, cudaDevice,
                   outcome, execCount, claimLog, cbLog, cbRaised, diag>>
    /\ KeepFlag

\* Mutant: the pop is guarded by a lock of its own, which the callback never holds.
AcquireForPopSeparate(w) ==
    /\ pc[w] = "lock1"
    /\ \A v \in Workers : pc[v] \notin {"pop", "unlock1"}
    /\ pc' = [pc EXCEPT ![w] = "pop"]
    /\ UNCHANGED <<runVars, mainVars, inputVars, tasks, mutex, tasksCompleted, task,
                   cudaDevice, outcome, execCount, claimLog, cbLog, cbRaised, diag>>
    /\ KeepFlag

\* line 367: with mutex (acquire)
AcquireForPop(w) ==
    /\ pc[w] = "lock1"
    /\ LockFree(mutex)
    /\ mutex' = w
    /\ pc' = [pc EXCEPT ![w] = "pop"]
    /\ UNCHANGED <<runVars, mainVars, inputVars, tasks, tasksCompleted, task, cudaDevice,
                   outcome, execCount, claimLog, cbLog, cbRaised, diag>>
    /\ KeepFlag

\* lines 368-370: if len(tasks) > 0: task = tasks[0]; del tasks[0]
Pop(w) ==
    /\ pc[w] = "pop"
    /\ IF Len(tasks) > 0
         THEN /\ task' = [task EXCEPT ![w] = Head(tasks)]
              /\ tasks' = PopFront(tasks)
              /\ claimLog' = Append(claimLog,
                    [task |-> Head(tasks), worker |-> w, flag |-> terminate])
         ELSE UNCHANGED <<task, tasks, claimLog>>
    /\ pc' = [pc EXCEPT ![w] = "unlock1"]
    /\ UNCHANGED <<runVars, mainVars, inputVars, mutex, tasksCompleted, cudaDevice,
                   outcome, execCount, cbLog, cbRaised, diag>>
    /\ KeepFlag

\* Mutant: the lock is taken with acquire() and never released after the pop.
ReleaseAfterPopHolds(w) ==
    /\ pc[w] = "unlock1"
    /\ pc' = [pc EXCEPT ![w] = IF task[w] = 0 THEN "stopped" ELSE "bind"]
    /\ UNCHANGED <<runVars, mainVars, inputVars, tasks, mutex, tasksCompleted, task,
                   cudaDevice, outcome, execCount, claimLog, cbLog, cbRaised, diag>>
    /\ KeepFlag

\* line 370 (end of the with block): release; lines 371-372: if task is None: break
ReleaseAfterPop(w) ==
    /\ pc[w] = "unlock1"
    /\ mutex' = 0
    /\ pc' = [pc EXCEPT ![w] = IF task[w] = 0 THEN "stopped" ELSE "bind"]
    /\ UNCHANGED <<runVars, mainVars, inputVars, tasks, tasksCompleted, task, cudaDevice,
                   outcome, execCount, claimLog, cbLog, cbRaised, diag>>
    /\ KeepFlag

\* Mutant: the device is not written into the task's arguments.
BindSkips(w) ==
    /\ pc[w] = "bind"
    /\ pc' = [pc EXCEPT ![w] = "start"]
    /\ UNCHANGED <<runVars, mainVars, inputVars, tasks, mutex, tasksCompleted, task, cudaDevice,
                   outcome, execCount, claimLog, cbLog, cbRaised, diag>>
    /\ KeepFlag

\* lines 375-379: args = task[0] or task; args.cudaDevice = device
Bind(w) ==
    /\ pc[w] = "bind"
    /\ cudaDevice' = [cudaDevice EXCEPT ![task[w]] = DeviceOf(w)]
    /\ pc' = [pc EXCEPT ![w] = "start"]
    /\ UNCHANGED <<runVars, mainVars, inputVars, tasks, mutex, tasksCompleted, task,
                   outcome, execCount, claimLog, cbLog, cbRaised, diag>>
    /\ KeepFlag

\* Mutant: the process is started without being waited for (Popen), and the worker
\* goes back to the loop head.
SpawnDetached(w) ==
    /\ pc[w] = "start"
    /\ execCount' = [execCount EXCEPT ![task[w]] = @ + 1]
    /\ pc' = [pc EXCEPT ![w] = "check"]
    /\ UNCHANGED <<runVars, mainVars, inputVars, tasks, mutex, tasksCompleted, task, cudaDevice,
                   outcome, claimLog, cbLog, cbRaised, diag>>
    /\ KeepFlag

\* lines 383, 250-253: run(args) builds the command line and spawns the process
Spawn(w) ==
    /\ pc[w] = "start"
    /\ execCount' = [execCount EXCEPT ![task[w]] = @ + 1]
    /\ pc' = [pc EXCEPT ![w] = "running"]
    /\ UNCHANGED <<runVars, mainVars, inputVars, tasks, mutex, tasksCompleted, task, cudaDevice,
                   outcome, claimLog, cbLog, cbRaised, diag>>
    /\ KeepFlag

\* lines 384-391 with a non-RuntimeError exception out of run(args), raised before a
\* process runs (get_command_line's ValueError, lines 137 and 166; subprocess.run's
\* OSError for a missing tool): traceback, terminate = True, return
RunRaisesOther(w) ==
    /\ pc[w] = "start"
    /\ outcome' = [outcome EXCEPT ![task[w]] = "exc"]
    /\ SetFlag
    /\ pc' = [pc EXCEPT ![w] = "stopped"]
    /\ UNCHANGED <<runVars, mainVars, inputVars, tasks, mutex, tasksCompleted, task, cudaDevice,
                   execCount, claimLog, cbLog, cbRaised>>
    /\ diag' = diag \cup {"trace"}

\* Mutant: the worker polls the flag after the process and drops the result.
RunSucceedsUnlessFlag(w) ==
    /\ pc[w] = "running"
    /\ outcome' = [outcome EXCEPT ![task[w]] = "ok"]
    /\ pc' = [pc EXCEPT ![w] = IF terminate THEN "stopped" ELSE "lock2"]
    /\ UNCHANGED <<runVars, mainVars, inputVars, tasks, mutex, tasksCompleted, task, cudaDevice,
                   execCount, claimLog, cbLog, cbRaised, diag>>
    /\ KeepFlag

\* lines 253-330, 383: the process exits with status 0 and run(args) returns a Result
RunSucceeds(w) ==
    /\ pc[w] = "running"
    /\ outcome' = [outcome EXCEPT ![task[w]] = "ok"]
    /\ pc' = [pc EXCEPT ![w] = "lock2"]
    /\ UNCHANGED <<runVars, mainVars, inputVars, tasks, mutex, tasksCompleted, task, cudaDevice,
                   execCount, claimLog, cbLog, cbRaised, diag>>
    /\ KeepFlag

\* Mutant: the except block returns without setting the flag.
RunFailsSilently(w) ==
    /\ pc[w] = "running"
    /\ outcome' = [outcome EXCEPT ![task[w]] = "fail"]
    /\ pc' = [pc EXCEPT ![w] = "stopped"]
    /\ UNCHANGED <<runVars, mainVars, inputVars, tasks, mutex, tasksCompleted, task, cudaDevice,
                   execCount, claimLog, cbLog, cbRaised>>
    /\ KeepFlag
    /\ diag' = IF terminate THEN diag ELSE diag \cup {"ntc"}

\* Mutant: the except block sets the flag but falls through to the callback.
RunFailsFallsThrough(w) ==
    /\ pc[w] = "running"
    /\ outcome' = [outcome EXCEPT ![task[w]] = "fail"]
    /\ SetFlag
    /\ pc' = [pc EXCEPT ![w] = "lock2"]
    /\ UNCHANGED <<runVars, mainVars, inputVars, tasks, mutex, tasksCompleted, task, cudaDevice,
                   execCount, claimLog, cbLog, cbRaised>>
    /\ diag' = IF terminate THEN diag ELSE diag \cup {"ntc"}

\* Mutant: the failing task is put back at the end of the list before the return.
RunFailsRequeues(w) ==
    /\ pc[w] = "running"
    /\ outcome' = [outcome EXCEPT ![task[w]] = "fail"]
    /\ tasks' = Append(tasks, task[w])
    /\ SetFlag
    /\ pc' = [pc EXCEPT ![w] = "stopped"]
    /\ UNCHANGED <<runVars, mainVars, inputVars, mutex, tasksCompleted, task, cudaDevice,
                   execCount, claimLog, cbLog, cbRaised>>
    /\ diag' = IF terminate THEN diag ELSE diag \cup {"ntc"}

\* lines 256-257, 384-391: non-zero exit status, run(args) raises RuntimeError;
\* the handler sets terminate = True and returns
RunFails(w) ==
    /\ pc[w] = "running"
    /\ outcome' = [outcome EXCEPT ![task[w]] = "fail"]
    /\ SetFlag
    /\ pc' = [pc EXCEPT ![w] = "stopped"]
    /\ UNCHANGED <<runVars, mainVars, inputVars, tasks, mutex, tasksCompleted, task, cudaDevice,
                   execCount, claimLog, cbLog, cbRaised>>
    /\ diag' = IF terminate THEN diag ELSE diag \cup {"ntc"}

\* Mutant: the counter is advanced before the 'with mutex' block is entered.
AcquireForReadySkips(w) ==
    /\ pc[w] = "lock2"
    /\ pc' = [pc EXCEPT ![w] = "incr"]
    /\ UNCHANGED <<runVars, mainVars, inputVars, tasks, mutex, tasksCompleted, task, cudaDevice,
                   outcome, execCount, claimLog, cbLog, cbRaised, diag>>
    /\ KeepFlag

\* line 394: with mutex (acquire)
AcquireForReady(w) ==
    /\ pc[w] = "lock2"
    /\ LockFree(mutex)
    /\ mutex' = w
    /\ pc' = [pc EXCEPT ![w] = "incr"]
    /\ UNCHANGED <<runVars, mainVars, inputVars, tasks, tasksCompleted, task, cudaDevice,
                   outcome, execCount, claimLog, cbLog, cbRaised, diag>>
    /\ KeepFlag

\* Mutant: the counter is passed on without being advanced.
IncrementedNot(n) == n

\* line 396: tasksCompleted + 1
Incremented(n) == n + 1

\* line 396: tasksCompleted += 1
Increment(w) ==
    /\ pc[w] = "incr"
    /\ tasksCompleted' = Incremented(tasksCompleted)
    /\ pc' = [pc EXCEPT ![w] = "call"]
    /\ UNCHANGED <<runVars, mainVars, inputVars, tasks, mutex, task, cudaDevice,
                   outcome, execCount, claimLog, cbLog, cbRaised, diag>>
    /\ KeepFlag

\* Mutant: the callback is given the current length of the list as the total.
CallReadyQueueLength(w) ==
    /\ pc[w] = "call"
    /\ cbLog' = Append(cbLog, [task |-> task[w], completed |-> tasksCompleted,
                               total |-> Len(tasks), worker |-> w,
                               flag |-> terminate])
    /\ pc' = [pc EXCEPT ![w] = "ready"]
    /\ UNCHANGED <<runVars, mainVars, inputVars, tasks, mutex, tasksCompleted, task, cudaDevice,
                   outcome, execCount, claimLog, cbRaised, diag>>
    /\ KeepFlag

\* line 399: ready(task, result, originalTaskCount, tasksCompleted) is entered
CallReady(w) ==
    /\ pc[w] = "call"
    /\ cbLog' = Append(cbLog, [task |-> task[w], completed |-> tasksCompleted,
                               total |-> originalTaskCount, worker |-> w,
                               flag |-> terminate])
    /\ pc' = [pc EXCEPT ![w] = "ready"]
    /\ UNCHANGED <<runVars, mainVars, inputVars, tasks, mutex, tasksCompleted, task, cudaDevice,
                   outcome, execCount, claimLog, cbRaised, diag>>
    /\ KeepFlag

\* Mutant: the flag is tested on entry to the loop only (the worker goes from the
\* callback straight to the next pop).
ReadyReturnsSkipsCheck(w) ==
    /\ pc[w] = "ready"
    /\ mutex' = 0
    /\ pc' = [pc EXCEPT ![w] = "lock1"]
    /\ task' = [task EXCEPT ![w] = 0]
    /\ UNCHANGED <<runVars, mainVars, inputVars, tasks, tasksCompleted, cudaDevice,
                   outcome, execCount, claimLog, cbLog, cbRaised, diag>>
    /\ KeepFlag

\* line 399 returns; line 404 (end of the with block): release; back to line 364
ReadyReturns(w) ==
    /\ pc[w] = "ready"
    /\ mutex' = 0
    /\ pc' = [pc EXCEPT ![w] = "check"]
    /\ UNCHANGED <<runVars, mainVars, inputVars, tasks, tasksCompleted, task, cudaDevice,
                   outcome, execCount, claimLog, cbLog, cbRaised, diag>>
    /\ KeepFlag

\* Mutant: no except clause around ready: the exception ends the thread, unreported
\* by this code and without setting the flag.
ReadyRaisesUncaught(w) ==
    /\ pc[w] = "ready"
    /\ cbRaised' = cbRaised \cup {task[w]}
    /\ pc' = [pc EXCEPT ![w] = "unwind"]
    /\ UNCHANGED <<runVars, mainVars, inputVars, tasks, mutex, tasksCompleted, task, cudaDevice,
                   outcome, execCount, claimLog, cbLog, diag>>
    /\ KeepFlag

\* lines 400-403: ready raised; report it, terminate = True
ReadyRaises(w) ==
    /\ pc[w] = "ready"
    /\ cbRaised' = cbRaised \cup {task[w]}
    /\ SetFlag
    /\ pc' = [pc EXCEPT ![w] = "unwind"]
    /\ UNCHANGED <<runVars, mainVars, inputVars, tasks, mutex, tasksCompleted, task, cudaDevice,
                   outcome, execCount, claimLog, cbLog>>
    /\ diag' = diag \cup {"ready"}

\* Mutant: the lock is taken with acquire() and the early return skips release().
UnwindKeepsLock(w) ==
    /\ pc[w] = "unwind"
    /\ pc' = [pc EXCEPT ![w] = "stopped"]
    /\ UNCHANGED <<runVars, mainVars, inputVars, tasks, mutex, tasksCompleted, task, cudaDevice,
                   outcome, execCount, claimLog, cbLog, cbRaised, diag>>
    /\ KeepFlag

\* line 404: return from inside the with block: the mutex is released on the way out
Unwind(w) ==
    /\ pc[w] = "unwind"
    /\ mutex' = 0
    /\ pc' = [pc EXCEPT ![w] = "stopped"]
    /\ UNCHANGED <<runVars, mainVars, inputVars, tasks, tasksCompleted, task, cudaDevice,
                   outcome, execCount, claimLog, cbLog, cbRaised, diag>>
    /\ KeepFlag

\* ------------------------------------------------------------ specification
Next ==
    \/ Validate
    \/ Install
    \/ LaunchThread
    \/ LaunchFails
    \/ BeginJoin
    \/ Join
    \/ EndJoin
    \/ Restore
    \/ Return
    \/ SigintHandler
    \/ SigintHandlerPrints
    \/ \E w \in Workers : Check(w)
    \/ \E w \in Workers : AcquireForPop(w)
    \/ \E w \in Workers : Pop(w)
    \/ \E w \in Workers : ReleaseAfterPop(w)
    \/ \E w \in Workers : Bind(w)
    \/ \E w \in Workers : Spawn(w)
    \/ \E w \in Workers : RunRaisesOther(w)
    \/ \E w \in Workers : RunSucceeds(w)
    \/ \E w \in Workers : RunFails(w)
    \/ \E w \in Workers : AcquireForReady(w)
    \/ \E w \in Workers : Increment(w)
    \/ \E w \in Workers : CallReady(w)
    \/ \E w \in Workers : ReadyReturns(w)
    \/ \E w \in Workers : ReadyRaises(w)
    \/ \E w \in Workers : Unwind(w)

Spec == Init /\ [][Next]_vars

\* ------------------------------------------------- the dispatcher, scheduled
\* lines 408-433, 359: whatever the calling thread does next, the rest of the
\* handler that interrupted it included
MainStep ==
    \/ Validate
    \/ Install
    \/ LaunchThread
    \/ LaunchFails
    \/ BeginJoin
    \/ Join
    \/ EndJoin
    \/ Restore
    \/ Return
    \/ SigintHandlerPrints

\* lines 361-404: whatever worker w does next; the external process it waits for
\* ends (RunSucceeds, RunFails) and the callback it is in comes back (ReadyReturns,
\* ReadyRaises)
WorkerStep(w) ==
    \/ Check(w)
    \/ AcquireForPop(w)
    \/ Pop(w)
    \/ ReleaseAfterPop(w)
    \/ Bind(w)
    \/ Spawn(w)
    \/ RunRaisesOther(w)
    \/ RunSucceeds(w)
    \/ RunFails(w)
    \/ AcquireForReady(w)
    \/ Increment(w)
    \/ CallReady(w)
    \/ ReadyReturns(w)
    \/ ReadyRaises(w)
    \/ Unwind(w)

\* A thread that can go on does go on (a thread waiting for the mutex can go on only
\* while the mutex is free, and no more than that is assumed of the lock); SIGINT
\* may arrive any number of times or never.
LiveSpec ==
    /\ Init /\ [][Next]_vars
    /\ WF_vars(MainStep)
    /\ \A w \in 1..MaxDevices : WF_vars(w \in Workers /\ WorkerStep(w))

\* ------------------------------------------------------------- run(args)
\* Arguments objects passed to run: a tool path, customArguments (given as its
\* characters), a graphics API (one of them unknown to get_command_line), an optional
\* bitsPerPixel (in hundredths) and the device set by the dispatcher.
ArgumentsSet ==
    { [tool |-> "ntc-cli", customArguments |-> c, graphicsApi |-> g,
       noCoopVec |-> (g = "dx12"), bitsPerPixel |-> b, compress |-> (b # None),
       cudaDevice |-> IF g = "" THEN None ELSE 1] :
        c \in {<<>>, <<"-", "v", " ", "-", "q">>},
        g \in {"", "vk", "dx12", "gl"},
        b \in {None, 400} }

\* Lines the tool may print: one or more for each pattern, with plain numbers, with
\* 'inf', with a negative number; a line of other text; an empty line.
OutputLines ==
    { Line("_baseCompRateRegex", <<DecTok(400)>>),
      Line("_bppRegex", <<DecTok(350), DecTok(3150)>>),
      Line("_bppRegex", <<DecTok(350), NegTok(150)>>),
      Line("_bcQualityRegex", <<InfTok, DecTok(800)>>),
      Line("_cudaDecompressionTimeRegex", <<DecTok(125)>>),
      Line("_dimensionsRegex", <<IntTok(512), IntTok(256), IntTok(4), IntTok(10)>>),
      Line("_experimentRegex", <<IntTok(1), DecTok(200)>>),
      Line("_fileSizeRegex", <<IntTok(1024), DecTok(350)>>),
      Line("_graphicsDecompressionTimeRegex", <<IntTok(100), DecTok(80)>>),
      Line("_latentShapeRegex", <<IntTok(4), IntTok(8), IntTok(16), IntTok(2), IntTok(4)>>),
      Line("_mipRegex", <<IntTok(0), DecTok(4000)>>),
      Line("_networkVersionRegex", <<"NTC_NETWORK_SMALL">>),
      Line("_overallPsnrRegex", <<"FP8", DecTok(3000)>>),
      Line("_overallPsnrRegex", <<"INT8", DecTok(3100)>>),
      Line("_stepRegex", <<IntTok(100), DecTok(150), DecTok(2500)>>),
      Line("_systemRegex", <<"RTX 4090", "Vulkan", "Y", "Y", "N", "N">>),
      Line("other", <<>>),
      Line("", <<>>) }

\* Texts of at most n lines.
RECURSIVE LineSeqs(_)
LineSeqs(n) ==
    IF n = 0 THEN {<<>>}
    ELSE LineSeqs(n - 1)
         \cup {Append(q, l) : q \in {p \in LineSeqs(n - 1) : Len(p) = n - 1},
                              l \in OutputLines}

\* What a process can leave behind: an exit status (negative: killed by a signal),
\* its standard output and its standard error.
ProcessOutputs ==
    { [returncode |-> rc, stdout |-> Stdout(q, eol), stderr |-> e] :
        rc \in {0, 1, -11}, q \in LineSeqs(MaxLines), eol \in BOOLEAN,
        e \in {"", "CUDA error"} }

\* The texts are written once: no lines means no final newline, and an empty last
\* line has its newline.
WellFormed(o) ==
    /\ o.stdout.lines = <<>> => ~o.stdout.eol
    /\ (o.stdout.lines # <<>> /\ o.stdout.lines[Len(o.stdout.lines)].pat = "")
          => o.stdout.eol

DispatcherNotCalled ==
    /\ originalTaskCount = 0 /\ nDev = 0
    /\ tasks = <<>> /\ shape = <<>>
    /\ mutex = 0 /\ terminate = FALSE /\ tasksCompleted = 0
    /\ pc = <<>> /\ task = <<>> /\ cudaDevice = <<>>
    /\ pcMain = "validate" /\ idx = 1 /\ mainExc = FALSE /\ retval = "none"
    /\ handler = "old" /\ inHandler = FALSE /\ sigints = "none"
    /\ outcome = <<>> /\ execCount = <<>>
    /\ claimLog = <<>> /\ cbLog = <<>> /\ cbRaised = {} /\ diag = {}

\* run(args) is entered with some Arguments.
RunInit ==
    /\ DispatcherNotCalled
    /\ runPc = "call"
    /\ args \in ArgumentsSet
    /\ command = <<>>
    /\ output = NoOutput
    /\ raised = NoError
    /\ result = NoResult
    /\ compressionRun = NewCompressionRun(None)
    /\ lineNo = 0

\* An exception of class 'type' carrying nothing of the process.
Exception(type) == [NoError EXCEPT !.type = type]

\* line 250: command = args.get_command_line()
BuildCommand ==
    /\ runPc = "call"
    /\ IF CommandLineRaises(args)
         THEN /\ raised' = Exception("ValueError")
              /\ runPc' = "raised"
              /\ UNCHANGED command
         ELSE /\ command' = GetCommandLine(args)
              /\ runPc' = "spawn"
              /\ UNCHANGED raised
    /\ UNCHANGED <<dispatcherVars, args, output, result, compressionRun, lineNo>>

\* line 253: subprocess.run raises OSError (the tool cannot be executed)
SubprocessRaises ==
    /\ runPc = "spawn"
    /\ raised' = Exception("OSError")
    /\ runPc' = "raised"
    /\ UNCHANGED <<dispatcherVars, args, command, output, result, compressionRun, lineNo>>

\* line 253: the process runs to its end and subprocess.run returns what it left
SubprocessReturns ==
    /\ runPc = "spawn"
    /\ \E o \in ProcessOutputs : WellFormed(o) /\ output' = o
    /\ runPc' = "exited"
    /\ UNCHANGED <<dispatcherVars, args, command, raised, result, compressionRun, lineNo>>

\* Mutant: only a positive exit status is taken for a failure.
CheckReturnCodePositive ==
    /\ runPc = "exited"
    /\ IF output.returncode > 0
         THEN /\ raised' = [type |-> "RuntimeError", command |-> command,
                            returncode |-> output.returncode,
                            stdout |-> output.stdout, stderr |-> output.stderr]
              /\ runPc' = "raised"
              /\ UNCHANGED <<result, compressionRun, lineNo>>
         ELSE /\ result' = <<NewResult(args.bitsPerPixel)>>
              /\ compressionRun' = NewCompressionRun(None)
              /\ lineNo' = 1
              /\ runPc' = "parse"
              /\ UNCHANGED raised
    /\ UNCHANGED <<dispatcherVars, args, command, output>>

\* lines 256-264: raise RuntimeError on a non-zero exit status; otherwise create the
\* Result and the first CompressionRun
CheckReturnCode ==
    /\ runPc = "exited"
    /\ IF output.returncode # 0
         THEN /\ raised' = [type |-> "RuntimeError", command |-> command,
                            returncode |-> output.returncode,
                            stdout |-> output.stdout, stderr |-> output.stderr]
              /\ runPc' = "raised"
              /\ UNCHANGED <<result, compressionRun, lineNo>>
         ELSE /\ result' = <<NewResult(args.bitsPerPixel)>>
              /\ compressionRun' = NewCompressionRun(None)
              /\ lineNo' = 1
              /\ runPc' = "parse"
              /\ UNCHANGED raised
    /\ UNCHANGED <<dispatcherVars, args, command, output>>

\* Mutant: a line that no pattern recognizes ends the run in progress.
ParseLineResetsOnUnmatched ==
    /\ runPc = "parse"
    /\ lineNo <= Len(SplitLines(output.stdout))
    /\ result' = <<ResultAfter(result[1], compressionRun, SplitLines(output.stdout)[lineNo])>>
    /\ compressionRun' =
          IF Matches(SplitLines(output.stdout)[lineNo])
            THEN RunAfter(compressionRun, SplitLines(output.stdout)[lineNo])
            ELSE NewCompressionRun(None)
    /\ lineNo' = lineNo + 1
    /\ UNCHANGED <<dispatcherVars, runPc, args, command, output, raised>>

\* Mutant: the loop body reads the line and leaves the Result as it is.
ParseLineKeepsResult ==
    /\ runPc = "parse"
    /\ lineNo <= Len(SplitLines(output.stdout))
    /\ compressionRun' = RunAfter(compressionRun, SplitLines(output.stdout)[lineNo])
    /\ lineNo' = lineNo + 1
    /\ UNCHANGED <<dispatcherVars, runPc, args, command, output, raised, result>>

\* lines 266-325: one iteration of the loop over output.stdout.splitlines()
ParseLine ==
    /\ runPc = "parse"
    /\ lineNo <= Len(SplitLines(output.stdout))
    /\ result' = <<ResultAfter(result[1], compressionRun, SplitLines(output.stdout)[lineNo])>>
    /\ compressionRun' = RunAfter(compressionRun, SplitLines(output.stdout)[lineNo])
    /\ lineNo' = lineNo + 1
    /\ UNCHANGED <<dispatcherVars, runPc, args, command, output, raised>>

\* lines 327-330: after the last line, seal the run in progress and return the Result
ReturnResult ==
    /\ runPc = "parse"
    /\ lineNo > Len(SplitLines(output.stdout))
    /\ result' = <<Sealed(result[1], compressionRun)>>
    /\ runPc' = "returned"
    /\ UNCHANGED <<dispatcherVars, args, command, output, raised, compressionRun, lineNo>>

RunNext ==
    \/ BuildCommand
    \/ SubprocessRaises
    \/ SubprocessReturns
    \/ CheckReturnCode
    \/ ParseLine
    \/ ReturnResult

RunSpec == RunInit /\ [][RunNext]_vars

\* ------------------------------------ run(args) once the process has returned
\* Lines with 'inf' where a pattern has a number, besides those of OutputLines: in a
\* PSNR group, and in a rate (bpp) or a timing (ms) group; further rates and kinds.
ParseLines ==
    OutputLines \cup
    { Line("_baseCompRateRegex", <<DecTok(200)>>),
      Line("_baseCompRateRegex", <<InfTok>>),
      Line("_bppRegex", <<DecTok(400), DecTok(3150)>>),
      Line("_bppRegex", <<DecTok(350), InfTok>>),
      Line("_bppRegex", <<InfTok, DecTok(3150)>>),
      Line("_bcQualityRegex", <<DecTok(3820), InfTok>>),
      Line("_cudaDecompressionTimeRegex", <<InfTok>>),
      Line("_experimentRegex", <<IntTok(2), InfTok>>),
      Line("_fileSizeRegex", <<IntTok(1024), InfTok>>),
      Line("_graphicsDecompressionTimeRegex", <<IntTok(100), InfTok>>),
      Line("_mipRegex", <<IntTok(1), InfTok>>),
      Line("_overallPsnrRegex", <<"FP8", InfTok>>),
      Line("_overallPsnrRegex", <<"INT8", InfTok>>),
      Line("_overallPsnrRegex", <<"fp16", DecTok(2900)>>),
      Line("_stepRegex", <<IntTok(200), DecTok(125), InfTok>>),
      Line("_stepRegex", <<IntTok(100), InfTok, DecTok(2500)>>),
      Line("_systemRegex", <<"GTX 1080", "D3D12", "N", "N", "Y", "Y">>) }

\* The lines of a compression with experiments: two experiment starts, two training
\* reports, the selected rate and the overall quality.
EventLines ==
    { Line("_experimentRegex", <<IntTok(1), DecTok(200)>>),
      Line("_experimentRegex", <<IntTok(2), DecTok(400)>>),
      Line("_stepRegex", <<IntTok(1000), DecTok(150), DecTok(2500)>>),
      Line("_stepRegex", <<IntTok(2000), DecTok(125), DecTok(2700)>>),
      Line("_bppRegex", <<DecTok(400), DecTok(3150)>>),
      Line("_overallPsnrRegex", <<"INT8", DecTok(3100)>>) }

\* Texts of at most n lines taken from S.
RECURSIVE SeqsOver(_, _)
SeqsOver(S, n) ==
    IF n = 0 THEN {<<>>}
    ELSE SeqsOver(S, n - 1)
         \cup {Append(q, l) : q \in {p \in SeqsOver(S, n - 1) : Len(p) = n - 1}, l \in S}

\* What a process that succeeded can have printed: short texts of any lines, longer
\* ones of experiment lines (every line ended by its newline).
ParseOutputs ==
    { [returncode |-> 0, stdout |-> Stdout(q, q # <<>>), stderr |-> ""] :
        q \in SeqsOver(ParseLines, MaxLines) \cup SeqsOver(EventLines, MaxEvents) }

\* Arguments of a compression, with and without a rate of their own.
ParseArguments ==
    { [tool |-> "ntc-cli", customArguments |-> <<>>, graphicsApi |-> "vk",
       noCoopVec |-> FALSE, bitsPerPixel |-> b, compress |-> TRUE, cudaDevice |-> 0] :
        b \in {None, 400} }

\* line 254: subprocess.run has just returned
ParseInit ==
    /\ DispatcherNotCalled
    /\ runPc = "exited"
    /\ args \in ParseArguments
    /\ command = GetCommandLine(args)
    /\ output \in ParseOutputs
    /\ raised = NoError
    /\ result = NoResult
    /\ compressionRun = NewCompressionRun(None)
    /\ lineNo = 0

ParseNext ==
    \/ CheckReturnCode
    \/ ParseLine
    \/ ReturnResult

ParseSpec == ParseInit /\ [][ParseNext]_vars

\* ------------------------------------------------------------------ claims
N == originalTaskCount

\* Number of 'ready' invocations made for task j.
CallbackCount(j) == Cardinality({i \in 1..Len(cbLog) : cbLog[i].task = j})

\* The completedSoFar values passed to 'ready' so far.
CompletedValues == {cbLog[i].completed : i \in 1..Len(cbLog)}

\* No task failed, no callback raised, no SIGINT was handled.
NoFault ==
    /\ \A j \in Jobs : outcome[j] \notin {"fail", "exc"}
    /\ cbRaised = {}
    /\ sigints = "none"

AllCalledBackInOrder ==
    /\ Len(cbLog) = N
    /\ CompletedValues = 1..N
    /\ retval = "False"

\* C1 (as stated): for any task list of length N and ANY device list, a run without
\* failure, callback exception or SIGINT returns False after exactly N callbacks
\* whose completedSoFar values are 1..N.
C1_Original == (pcMain = "returned" /\ NoFault) => AllCalledBackInOrder

\* C1 (amended): the same for any NON-EMPTY device list: with at least one worker, a
\* run without failure, callback exception or SIGINT returns False after exactly N
\* callbacks whose completedSoFar values are exactly 1..N.
C1_Amended == (pcMain = "returned" /\ NoFault /\ nDev >= 1) => AllCalledBackInOrder

\* Two workers shared a fault-free run of at least two tasks, and the call returned.
C1_Witness ==
    /\ pcMain = "returned" /\ NoFault /\ N >= 2
    /\ \E i, k \in 1..Len(cbLog) : cbLog[i].worker # cbLog[k].worker

\* C2: at most one worker is inside the 'ready' callback in any reachable state.
C2_CallbackExclusive == Cardinality({w \in Workers : pc[w] = "ready"}) <= 1

\* One worker is inside 'ready' while another, its task done, waits for the mutex.
C2_Witness == \E w, v \in Workers : pc[w] = "ready" /\ pc[v] = "lock2"

\* C3: every task is claimed by at most one worker (one queue pop) and its external
\* process is spawned at most once, failure or not.
C3_ClaimedAndRunOnce ==
    \A j \in Jobs :
        /\ Cardinality({i \in 1..Len(claimLog) : claimLog[i].task = j}) <= 1
        /\ Cardinality({w \in Workers : Holding(w) /\ task[w] = j}) <= 1
        /\ execCount[j] <= 1

\* Two workers raced on the queue, each ran one task, and one of the tasks failed
\* without being run again.
C3_Witness ==
    /\ \E i, k \in 1..Len(claimLog) : claimLog[i].worker # claimLog[k].worker
    /\ \E j \in Jobs : outcome[j] = "fail" /\ execCount[j] = 1
    /\ \A w \in Workers : pc[w] = "stopped"

SomeJobFailed == \E j \in Jobs : outcome[j] = "fail"

\* C4 (as stated): if some task fails (non-zero exit), the call returns True and the
\* number of callbacks is at least (workers - 1) and at most N.
C4_Original ==
    (pcMain = "returned" /\ SomeJobFailed) =>
        /\ retval = "True"
        /\ Len(cbLog) >= nDev - 1
        /\ Len(cbLog) <= N

\* C4 (amended): if some task fails (non-zero exit), the call returns True and the
\* number of callbacks is at least 0 and at most N (no lower bound follows from the
\* number of workers).
C4_Amended ==
    (pcMain = "returned" /\ SomeJobFailed) =>
        /\ retval = "True"
        /\ Len(cbLog) >= 0
        /\ Len(cbLog) <= N

\* A run with two workers that returned after a failure and after a callback of
\* another task.
C4_Witness ==
    /\ pcMain = "returned" /\ SomeJobFailed /\ nDev >= 2
    /\ Len(cbLog) >= 1

\* The flag is true and no SIGINT was handled: a task failure or a callback failure
\* set it.
FlagSetByFailure == terminate /\ sigints = "none"

\* C5 (as stated): once a task failure or callback failure has set the flag, no worker
\* pops a further task: every pop happens while the flag is still false.
C5_Original ==
    \A i \in 1..Len(claimLog) : ~(claimLog[i].flag /\ FlagSetByFailure)

\* C5 (amended): once a task failure or callback failure has set the flag, each
\* worker pops at most one further task (a worker that read the flag as false at the
\* loop head just before it was set can still pop once).
C5_Amended ==
    FlagSetByFailure =>
        \A w \in Workers :
            Cardinality({i \in 1..Len(claimLog) :
                            claimLog[i].flag /\ claimLog[i].worker = w}) <= 1

\* A worker popped a task after a failure had set the flag.
C5_Witness ==
    /\ FlagSetByFailure
    /\ \E i \in 1..Len(claimLog) : claimLog[i].flag

\* C6: cancellation is cooperative. A worker holding a claimed job while the flag is
\* true is stopped only by its own job's failure, never by the flag; and a worker
\* that observes the flag at the loop head and stops has already had the callback
\* of its last job invoked, with the incremented count.
C6_Cooperative ==
    [][\A w \in Workers :
         /\ (terminate /\ Holding(w) /\ pc'[w] = "stopped")
               => outcome'[task[w]] \in {"fail", "exc"}
         /\ (pc[w] = "check" /\ pc'[w] = "stopped" /\ task[w] # 0)
               => \E i \in 1..Len(cbLog) :
                     /\ cbLog[i].task = task[w]
                     /\ cbLog[i].completed = i
                     /\ outcome[task[w]] = "ok"]_vars

\* A job claimed before the flag was set had its callback invoked with the flag
\* already true, the callback returned, and the worker then stopped.
C6_Witness ==
    \E i \in 1..Len(cbLog), k \in 1..Len(claimLog) :
        /\ cbLog[i].flag
        /\ claimLog[k].task = cbLog[i].task
        /\ ~claimLog[k].flag
        /\ cbLog[i].task \notin cbRaised
        /\ pc[cbLog[i].worker] = "stopped"

\* C7 (as stated): if SIGINT is delivered at a moment when no worker holds a claimed,
\* unfinished job, the call returns True and 'ready' has been invoked zero times.
C7_Original ==
    (pcMain = "returned" /\ sigints \in {"early", "idle"}) =>
        (retval = "True" /\ Len(cbLog) = 0)

\* C7 (amended): if SIGINT is delivered at a moment when no job has been claimed yet
\* and no worker is past its flag check, the call returns True and 'ready' has been
\* invoked zero times.
C7_Amended ==
    (pcMain = "returned" /\ sigints = "early") =>
        (retval = "True" /\ Len(cbLog) = 0 /\ Len(tasks) = N)

\* SIGINT came before any claim, with tasks to do and two workers; the call returned.
C7_Witness ==
    /\ pcMain = "returned" /\ sigints = "early"
    /\ N >= 2 /\ nDev >= 2

\* C8: if _sigint_handler runs at any point while it is installed, the call returns
\* True.
C8_SigintReturnsTrue ==
    (pcMain = "returned" /\ sigints # "none") => retval = "True"

\* SIGINT arrived only after every task had completed and been reported; the call
\* still returned True.
C8_Witness ==
    /\ pcMain = "returned" /\ sigints = "idle"
    /\ N >= 1 /\ Len(cbLog) = N
    /\ \A i \in 1..Len(cbLog) : ~cbLog[i].flag
    /\ \A j \in Jobs : outcome[j] = "ok"
    /\ cbRaised = {}

\* The worker that made the 'ready' invocation of task j.
CallerOf(j) == CHOOSE w \in Workers : \E i \in 1..Len(cbLog) :
                   cbLog[i].task = j /\ cbLog[i].worker = w

\* C9: a callback that raises is handled like a job failure: the flag is set, the
\* invoking worker stops without claiming another job, it does not keep the mutex,
\* and the call returns True.
C9_CallbackFailure ==
    /\ \A j \in cbRaised :
          /\ terminate
          /\ pc[CallerOf(j)] \in {"unwind", "stopped"}
          /\ task[CallerOf(j)] = j
          /\ pc[CallerOf(j)] = "stopped" => mutex # CallerOf(j)
    /\ (pcMain = "returned" /\ cbRaised # {}) => retval = "True"

\* A callback raised, a worker that was blocked on the mutex then made its own
\* callback, and the call returned.
C9_Witness ==
    /\ pcMain = "returned"
    /\ \E i, k \in 1..Len(cbLog) : i < k /\ cbLog[i].task \in cbRaised

AllWorkersStopped == \A w \in Workers : pc[w] = "stopped"

\* C10: 'ready' is invoked at most once per task and only for a task whose execution
\* succeeded; once the workers have stopped it has been invoked exactly once for
\* each task that succeeded; the completed-count counts only tasks that succeeded.
C10_CallbackPerSuccess ==
    /\ \A j \in Jobs :
          /\ CallbackCount(j) <= 1
          /\ CallbackCount(j) = 1 => outcome[j] = "ok"
          /\ (AllWorkersStopped /\ outcome[j] = "ok") => CallbackCount(j) = 1
    /\ tasksCompleted <= Cardinality({j \in Jobs : outcome[j] = "ok"})
    /\ AllWorkersStopped =>
          tasksCompleted = Cardinality({j \in Jobs : outcome[j] = "ok"})

\* The workers have stopped after one task succeeded and was reported and another
\* failed and was not.
C10_Witness ==
    /\ AllWorkersStopped /\ nDev >= 1
    /\ \E j, k \in Jobs :
          /\ outcome[j] = "ok" /\ CallbackCount(j) = 1
          /\ outcome[k] = "fail" /\ CallbackCount(k) = 0

\* Some element of the input list is neither Arguments nor a tuple led by Arguments.
BadInput == \E j \in Jobs : shape[j] \in {"badtuple", "emptytuple", "other"}

\* C11: with a malformed element in the task list the call can only raise from its
\* validation loop: no worker is launched, no process is spawned, no task is removed
\* from the list, no callback is invoked and the SIGINT handler is never replaced.
C11_ValidationFirst ==
    BadInput =>
        /\ pcMain \in {"validate", "raised"}
        /\ ~mainExc /\ retval = "none"
        /\ handler = "old"
        /\ tasks = [j \in 1..N |-> j]
        /\ claimLog = <<>> /\ cbLog = <<>>
        /\ \A j \in Jobs : execCount[j] = 0 /\ outcome[j] = "none"
        /\ \A w \in Workers : pc[w] = "idle"

\* The call has raised on a list whose last element is malformed, after well-formed
\* ones, with a device to run on.
C11_Witness ==
    /\ pcMain = "raised" /\ N >= 2 /\ nDev >= 1
    /\ shape[1] = "args" /\ shape[N] \in {"badtuple", "emptytuple", "other"}

\* C12: whenever the call has left its try block after installing its handler, by
\* reaching the return or by an exception raised while launching workers, the
\* process-wide SIGINT handler is the one that was installed before the call.
C12_HandlerRestored ==
    (pcMain \in {"return", "returned"} \/ (pcMain = "raised" /\ mainExc))
        => handler = "old"

\* Starting the second thread raised while the first worker was running a process;
\* the exception left the call with the prior handler back in place.
C12_Witness ==
    /\ pcMain = "raised" /\ mainExc /\ handler = "old"
    /\ \E w \in Workers : pc[w] = "running"

\* Some task's run(args) raised something other than the module's RuntimeError.
SomeJobRaised == \E j \in Jobs : outcome[j] = "exc"

C14_FlagMonotonic ==
    [][/\ terminate => terminate'
       /\ \A w \in Workers :
            (terminate /\ pc[w] = "check" /\ pc'[w] # pc[w]) => pc'[w] = "stopped"]_vars

\* The flag has been set three times: by SIGINT, by a task failure and by a callback
\* failure.
C14_Witness ==
    /\ terminate /\ sigints # "none" /\ SomeJobFailed /\ cbRaised # {}
    /\ AllWorkersStopped

\* C15: the completed-count never exceeds the original task count, and it changes
\* only by one, in a step of a worker that holds the mutex.
C15_CountBounded ==
    /\ [](tasksCompleted <= N)
    /\ [][tasksCompleted' # tasksCompleted =>
            /\ tasksCompleted' = tasksCompleted + 1
            /\ \E w \in Workers :
                 mutex = w /\ pc[w] = "incr" /\ pc'[w] = "call"]_vars

\* The last of several tasks has just been counted by a worker holding the mutex,
\* while the other worker waits for the mutex.
C15_Witness ==
    /\ N >= 2 /\ tasksCompleted = N
    /\ \E w, v \in Workers : pc[w] = "call" /\ mutex = w /\ pc[v] = "lock1"

\* The workers that have popped task j so far.
ClaimersOf(j) == {claimLog[i].worker : i \in {k \in 1..Len(claimLog) : claimLog[k].task = j}}

\* C16: (tasks holding distinct Arguments objects) the cudaDevice field of a task is
\* unset until the task is claimed; it is written with the claiming worker's device,
\* and before the task's process is spawned; while the process runs it equals the
\* executing worker's device; and once written it never changes.
C16_DeviceSlot ==
    /\ [](\A j \in Jobs :
            /\ cudaDevice[j] # -1 =>
                  \E w \in ClaimersOf(j) : cudaDevice[j] = DeviceOf(w)
            /\ execCount[j] > 0 => cudaDevice[j] # -1)
    /\ [](\A w \in Workers :
            pc[w] = "running" => cudaDevice[task[w]] = DeviceOf(w))
    /\ [][\A j \in Jobs :
            cudaDevice[j] # -1 => cudaDevice'[j] = cudaDevice[j]]_vars

\* Two workers run the processes of two tasks, each task carrying its own worker's
\* device, the second task on the first device.
C16_Witness ==
    \E w, v \in Workers :
        /\ pc[w] = "running" /\ pc[v] = "running"
        /\ task[w] = 2 /\ cudaDevice[2] = 0
        /\ task[v] = 1 /\ cudaDevice[1] = 1

\* C17: tasks are claimed in list order: the i-th claim takes the i-th task of the
\* original list, the remaining queue is the rest of the original list, and the
\* queue changes only by losing its front element.
C17_QueueOrder ==
    /\ [](/\ \A i \in 1..Len(claimLog) : claimLog[i].task = i
          /\ Len(claimLog) <= N
          /\ tasks = [i \in 1..(N - Len(claimLog)) |-> Len(claimLog) + i])
    /\ [][tasks' # tasks =>
            /\ tasks # <<>>
            /\ tasks' = Tail(tasks)
            /\ claimLog' = Append(claimLog, claimLog'[Len(claimLog')])
            /\ claimLog'[Len(claimLog')].task = Head(tasks)]_vars

\* Two different workers have claimed the first two of three tasks; the third is
\* still queued.
C17_Witness ==
    /\ Len(claimLog) = 2 /\ Len(tasks) = 1
    /\ claimLog[1].worker # claimLog[2].worker

\* Task j is over: its run raised, or its callback has been invoked and has come back.
Finished(j) ==
    \/ outcome[j] \in {"fail", "exc"}
    \/ /\ CallbackCount(j) >= 1
       /\ \A w \in Workers : ~(pc[w] = "ready" /\ task[w] = j)

\* The tasks worker w has claimed and not finished.
InFlightOf(w) == {j \in Jobs : w \in ClaimersOf(j) /\ ~Finished(j)}

\* C18: every worker has at most one claimed, unfinished task, and the number of
\* tasks in flight is at most the number of devices.
C18_OneInFlight ==
    /\ \A w \in Workers : Cardinality(InFlightOf(w)) <= 1
    /\ Cardinality(UNION {InFlightOf(w) : w \in Workers}) <= nDev

\* As many tasks are in flight as there are devices (one in its callback, one in its
\* process), with a task still queued.
C18_Witness ==
    /\ nDev = 2 /\ Len(tasks) >= 1
    /\ Cardinality(UNION {InFlightOf(w) : w \in Workers}) = 2
    /\ \E w, v \in Workers : pc[w] = "ready" /\ pc[v] = "running"

\* C19: the call reaches its return only with every worker stopped; after it has
\* returned no task is claimed, no process is spawned or running and no callback is
\* invoked; and a stopped worker stays stopped.
C19_ReturnAfterStop ==
    /\ [](pcMain \in {"return", "returned"} =>
            /\ AllWorkersStopped
            /\ mutex = 0)
    /\ [][pcMain = "returned" =>
            UNCHANGED <<tasks, claimLog, execCount, outcome, cbLog, tasksCompleted, pc>>]_vars
    /\ [][\A w \in Workers : pc[w] = "stopped" => pc'[w] = "stopped"]_vars

\* The call returned after a cancellation that left tasks in the queue, with two
\* workers that had claimed tasks.
C19_Witness ==
    /\ pcMain = "returned" /\ nDev = 2 /\ Len(tasks) >= 1
    /\ \E i, k \in 1..Len(claimLog) : claimLog[i].worker # claimLog[k].worker

\* C20: run(args) raises the module's RuntimeError exactly when the process has exited
\* with a non-zero status: a process that exited non-zero is followed by nothing but
\* that raise, the error holds the command line built from args, the exit status, and
\* the captured stdout and stderr as subprocess.run returned them, and then no Result
\* exists and no line was handled; a process that exited with zero never leads to it.
C20_RunFailure ==
    /\ raised.type = "RuntimeError" <=> (runPc = "raised" /\ output.returncode # 0)
    /\ output.returncode # 0 => runPc \in {"exited", "raised"}
    /\ raised.type = "RuntimeError" =>
          /\ raised.command = GetCommandLine(args)
          /\ raised.returncode = output.returncode
          /\ raised.stdout = output.stdout
          /\ raised.stderr = output.stderr
          /\ result = NoResult
          /\ lineNo = 0
          /\ compressionRun = NewCompressionRun(None)
    /\ runPc \in {"parse", "returned"} => (output.returncode = 0 /\ raised = NoError)

\* RuntimeError was raised for a process killed by a signal (negative status) that had
\* printed two lines and an error text, for a command line with custom arguments.
C20_Witness ==
    /\ runPc = "raised" /\ raised.type = "RuntimeError"
    /\ raised.returncode < 0
    /\ Len(raised.stdout.lines) = 2 /\ raised.stderr # ""
    /\ Len(raised.command) > 3

\* The lines the loop of run(args) goes over.
OutLines == SplitLines(output.stdout)

\* The positions of the lines that one of the patterns 'pats' recognizes.
Recognized(pats) ==
    {i \in 1..Len(OutLines) : OutLines[i].pat \in pats /\ Matches(OutLines[i])}

Last(S) == CHOOSE i \in S : \A k \in S : k <= i

\* The positions of the BaseRate and SelectedRate lines.
RateLineNos == Recognized({"_baseCompRateRegex", "_bppRegex"})

\* C21: the bitsPerPixel of the returned Result is the rate of the last BaseRate or
\* SelectedRate line of the output if there is one, and args.bitsPerPixel otherwise.
C21_RateField ==
    runPc = "returned" =>
        result[1].bitsPerPixel =
            IF RateLineNos = {} THEN args.bitsPerPixel
            ELSE FloatOf(OutLines[Last(RateLineNos)].f[1])

\* A Result was returned for arguments with a rate of 4.0 and an output with a
\* SelectedRate line followed by a BaseRate line of another rate, which it carries.
C21_Witness ==
    /\ runPc = "returned" /\ args.bitsPerPixel = 400
    /\ RateLineNos = {1, 2}
    /\ OutLines[1].pat = "_bppRegex" /\ OutLines[2].pat = "_baseCompRateRegex"
    /\ result[1].bitsPerPixel = 200

\* The experiment runs of a Result, none if the field is unset.
RunsOf(r) == IF r.compressionRuns = NoList THEN <<>> ELSE r.compressionRuns[1]

\* The samples of a CompressionRun, none if its learning curve is unset.
SamplesOf(c) == IF c.learningCurve = NoList THEN <<>> ELSE c.learningCurve[1]

\* The step of the loop that handles a line recognized by pattern 'pat'.
Handling(pat) ==
    /\ runPc = "parse" /\ lineNo' = lineNo + 1
    /\ OutLines[lineNo].pat = pat /\ Matches(OutLines[lineNo])

\* The output of the example: ExperimentStart(2.0), TrainingStep(1000),
\* TrainingStep(2000), ExperimentStart(4.0), TrainingStep(1000).
TwoExperiments ==
    << Line("_experimentRegex", <<IntTok(1), DecTok(200)>>),
       Line("_stepRegex", <<IntTok(1000), DecTok(150), DecTok(2500)>>),
       Line("_stepRegex", <<IntTok(2000), DecTok(125), DecTok(2700)>>),
       Line("_experimentRegex", <<IntTok(2), DecTok(400)>>),
       Line("_stepRegex", <<IntTok(1000), DecTok(150), DecTok(2500)>> ) >>

\* C22: an ExperimentStart line handled while the run in progress has at least one
\* sample appends that run to the Result's runs, after the runs already there, and
\* in every case a new run with the line's rate and no sample begins; the example
\* output yields exactly two runs, with 2 samples at rate 2.0 and 1 sample at 4.0.
C22_ExperimentSeals ==
    /\ [][Handling("_experimentRegex") =>
            /\ compressionRun' =
                  [bitsPerPixel |-> FloatOf(OutLines[lineNo].f[2]), learningCurve |-> NoList]
            /\ Len(SamplesOf(compressionRun)) >= 1 =>
                  result'[1].compressionRuns = <<Append(RunsOf(result[1]), compressionRun)>>]_vars
    /\ []((runPc = "returned" /\ OutLines = TwoExperiments) =>
            /\ Len(RunsOf(result[1])) = 2
            /\ RunsOf(result[1])[1].bitsPerPixel = 200
            /\ SamplesOf(RunsOf(result[1])[1]) = << <<1000, 150, 2500>>, <<2000, 125, 2700>> >>
            /\ RunsOf(result[1])[2].bitsPerPixel = 400
            /\ SamplesOf(RunsOf(result[1])[2]) = << <<1000, 150, 2500>> >>)

\* The Result of the example output has been returned, with its two runs.
C22_Witness ==
    /\ runPc = "returned" /\ OutLines = TwoExperiments
    /\ Len(RunsOf(result[1])) = 2

\* The positions of the ExperimentStart and TrainingStep lines.
EventNos == Recognized({"_experimentRegex", "_stepRegex"})

\* The positions of the TrainingStep lines that open a group of samples: the event
\* before them, if any, is an ExperimentStart.
GroupStarts ==
    {i \in Recognized({"_stepRegex"}) :
        \A k \in EventNos :
            (k < i /\ \A m \in EventNos : m < i => m <= k)
                => OutLines[k].pat = "_experimentRegex"}

\* C23: a run without samples is never appended: every run of the Result under
\* construction and of the returned Result has at least one sample, the run list is
\* never an empty list, and the returned Result has exactly one run per group of
\* consecutive TrainingStep lines (an ExperimentStart followed by no TrainingStep,
\* in the middle or at the end of the output, adds none).
C23_NoEmptyRun ==
    runPc \in {"parse", "returned"} =>
        /\ result[1].compressionRuns # <<(<<>>)>>
        /\ \A i \in 1..Len(RunsOf(result[1])) :
              Len(SamplesOf(RunsOf(result[1])[i])) >= 1
        /\ runPc = "returned" =>
              Len(RunsOf(result[1])) = Cardinality(GroupStarts)

\* A Result with a single run was returned for an output with two ExperimentStart
\* lines in a row, a TrainingStep line and a trailing ExperimentStart line.
C23_Witness ==
    /\ runPc = "returned" /\ Len(OutLines) = 4
    /\ Recognized({"_experimentRegex"}) = {1, 2, 4}
    /\ Recognized({"_stepRegex"}) = {3}
    /\ Len(RunsOf(result[1])) = 1

\* The returned Result of an output without ExperimentStart line, with a SelectedRate
\* line and an OverallQuality line.
ImplicitRun ==
    /\ runPc = "returned"
    /\ Recognized({"_experimentRegex"}) = {}
    /\ Recognized({"_bppRegex"}) # {}
    /\ Recognized({"_overallPsnrRegex"}) # {}

\* The Result carries the scalar fields of the pair: the rate and the overall quality.
ScalarFieldsSet ==
    /\ result[1].bitsPerPixel = FloatOf(OutLines[Last(RateLineNos)].f[1])
    /\ result[1].overallPsnr # None

\* C24 (as stated): with no ExperimentStart line and a SelectedRate / OverallQuality
\* pair in the output, the returned Result carries the scalar fields and an unset
\* run sequence.
C24_Original ==
    ImplicitRun => (ScalarFieldsSet /\ result[1].compressionRuns = NoList)

\* C24 (amended): with no ExperimentStart line and a SelectedRate / OverallQuality
\* pair in the output, the returned Result carries the scalar fields; its run
\* sequence is unset if the output has no TrainingStep line either, and otherwise it
\* holds exactly one run, without target rate, with one sample per TrainingStep line.
C24_Amended ==
    ImplicitRun =>
        /\ ScalarFieldsSet
        /\ IF Recognized({"_stepRegex"}) = {}
             THEN result[1].compressionRuns = NoList
             ELSE /\ Len(RunsOf(result[1])) = 1
                  /\ RunsOf(result[1])[1].bitsPerPixel = None
                  /\ Len(SamplesOf(RunsOf(result[1])[1]))
                        = Cardinality(Recognized({"_stepRegex"}))

\* The Result of a single compression was returned: two TrainingStep lines, the
\* SelectedRate line and the OverallQuality line, and one run of two samples.
C24_Witness ==
    /\ ImplicitRun
    /\ Cardinality(Recognized({"_stepRegex"})) = 2
    /\ Len(RunsOf(result[1])) = 1

\* The (steps, ms/step, psnr) samples of the TrainingStep lines among the first n
\* lines of the output, in the order of the lines.
RECURSIVE StepSamples(_)
StepSamples(n) ==
    IF n = 0 THEN <<>>
    ELSE IF OutLines[n].pat = "_stepRegex" /\ Matches(OutLines[n])
      THEN Append(StepSamples(n - 1),
                  <<IntOf(OutLines[n].f[1]), FloatOf(OutLines[n].f[2]),
                    FloatOf(OutLines[n].f[3])>>)
      ELSE StepSamples(n - 1)

\* The learning curves of the first n runs of 'runs', one after the other.
RECURSIVE CurvesOf(_, _)
CurvesOf(runs, n) ==
    IF n = 0 THEN <<>> ELSE CurvesOf(runs, n - 1) \o SamplesOf(runs[n])

\* C25: grouping loses and reorders no sample: the learning curves of the runs of
\* the Result, in run order, followed while the loop goes on by the samples of the
\* run in progress, are the samples of the TrainingStep lines handled so far, in
\* line order; and an output with k TrainingStep lines and no ExperimentStart line
\* returns one run with a learning curve of length k.
C25_SamplesKept ==
    /\ runPc = "parse" =>
          CurvesOf(RunsOf(result[1]), Len(RunsOf(result[1]))) \o SamplesOf(compressionRun)
              = StepSamples(lineNo - 1)
    /\ runPc = "returned" =>
          /\ CurvesOf(RunsOf(result[1]), Len(RunsOf(result[1])))
                = StepSamples(Len(OutLines))
          /\ (Recognized({"_experimentRegex"}) = {} /\ Recognized({"_stepRegex"}) # {}) =>
                /\ Len(RunsOf(result[1])) = 1
                /\ Len(SamplesOf(RunsOf(result[1])[1]))
                      = Cardinality(Recognized({"_stepRegex"}))

\* A Result was returned whose two runs hold the three samples of the output: two
\* different ones before an ExperimentStart line and one after it.
C25_Witness ==
    /\ runPc = "returned"
    /\ Len(RunsOf(result[1])) = 2
    /\ Len(StepSamples(Len(OutLines))) = 3
    /\ StepSamples(Len(OutLines))[1] # StepSamples(Len(OutLines))[2]
    /\ Len(SamplesOf(RunsOf(result[1])[1])) = 2

\* The Result and the run in progress after the recognized lines among the first n
\* lines of the output have been handled, the other lines being left out.
RECURSIVE RecognizedOnly(_)
RecognizedOnly(n) ==
    IF n = 0 THEN <<NewResult(args.bitsPerPixel), NewCompressionRun(None)>>
    ELSE LET before == RecognizedOnly(n - 1)
         IN  IF Matches(OutLines[n])
               THEN <<ResultAfter(before[1], before[2], OutLines[n]),
                      RunAfter(before[2], OutLines[n])>>
               ELSE before

\* C26: the step of the loop over a line that no pattern recognizes changes neither
\* the Result under construction nor the run in progress and raises nothing, the loop
\* going on with the next line; the returned Result is the one that the recognized
\* lines alone give.
C26_UnmatchedIgnored ==
    /\ [][(runPc = "parse" /\ lineNo' = lineNo + 1 /\ ~Matches(OutLines[lineNo])) =>
            /\ result' = result
            /\ compressionRun' = compressionRun
            /\ raised' = NoError
            /\ runPc' = "parse"]_vars
    /\ [](runPc = "returned" =>
            result[1] = Sealed(RecognizedOnly(Len(OutLines))[1],
                               RecognizedOnly(Len(OutLines))[2]))

\* A Result with one run of one sample was returned for a TrainingStep line followed
\* by a line with the text of a TrainingStep line but 'inf' for its timing.
C26_Witness ==
    /\ runPc = "returned" /\ Len(OutLines) = 2
    /\ OutLines[1].pat = "_stepRegex" /\ Matches(OutLines[1])
    /\ OutLines[2].pat = "_stepRegex" /\ ~Matches(OutLines[2])
    /\ Len(RunsOf(result[1])) = 1
    /\ Len(SamplesOf(RunsOf(result[1])[1])) = 1

\* The groups of a pattern that hold a quality (dB), and those that hold a rate (bpp)
\* or a timing (ms).
QualityFields(pat) ==
    CASE pat = "_bppRegex" -> {2}
      [] pat = "_bcQualityRegex" -> {1}
      [] pat = "_mipRegex" -> {2}
      [] pat = "_overallPsnrRegex" -> {2}
      [] pat = "_stepRegex" -> {3}
      [] OTHER -> {}
RateOrTimingFields(pat) ==
    CASE pat = "_baseCompRateRegex" -> {1}
      [] pat = "_bppRegex" -> {1}
      [] pat = "_bcQualityRegex" -> {2}
      [] pat = "_cudaDecompressionTimeRegex" -> {1}
      [] pat = "_experimentRegex" -> {2}
      [] pat = "_fileSizeRegex" -> {2}
      [] pat = "_graphicsDecompressionTimeRegex" -> {2}
      [] pat = "_stepRegex" -> {2}
      [] OTHER -> {}

\* The last element of an Optional list ('missing' if there is none).
LastOf(lst, missing) ==
    IF lst = NoList \/ lst = <<(<<>>)>> THEN missing ELSE lst[1][Len(lst[1])]

\* Where the value of group i of line l is kept once the line has been handled.
Stored(l, i) ==
    CASE l.pat = "_baseCompRateRegex" -> result[1].bitsPerPixel
      [] l.pat = "_bppRegex" ->
            IF i = 1 THEN result[1].bitsPerPixel ELSE result[1].overallPsnr
      [] l.pat = "_bcQualityRegex" ->
            IF i = 1 THEN result[1].combinedBcPsnr ELSE result[1].combinedBcBitsPerPixel
      [] l.pat = "_cudaDecompressionTimeRegex" -> result[1].decompressionTime
      [] l.pat = "_experimentRegex" -> compressionRun.bitsPerPixel
      [] l.pat = "_fileSizeRegex" -> result[1].savedFileBpp
      [] l.pat = "_graphicsDecompressionTimeRegex" -> result[1].decompressionTime
      [] l.pat = "_mipRegex" -> LastOf(result[1].perMipPsnr, None)
      [] l.pat = "_overallPsnrRegex" ->
            IF l.f[1] = "FP8" THEN result[1].overallPsnrFP8 ELSE result[1].overallPsnr
      [] l.pat = "_stepRegex" ->
            LastOf(compressionRun.learningCurve, <<None, None, None>>)[i]

\* The kinds of token that are a plain number.
IsNumber(t) == t.k \in {"int", "dec"}

\* The line handled last, while the loop goes on or after it.
JustHandled == runPc \in {"parse", "returned"} /\ lineNo >= 2

\* C27 (as stated): every rate, timing and quality group admits a plain number or
\* 'inf': a line whose numeric groups hold such tokens is handled, and each group
\* is stored with its value, +infinity for 'inf'.
C27_Original ==
    JustHandled =>
        LET l == OutLines[lineNo - 1]
        IN  (\A i \in QualityFields(l.pat) \cup RateOrTimingFields(l.pat) :
                IsNumber(l.f[i]) \/ l.f[i] = InfTok)
            => \A i \in QualityFields(l.pat) \cup RateOrTimingFields(l.pat) :
                  Stored(l, i) = FloatOf(l.f[i])

\* C27 (amended): every quality (dB) group admits a plain number or 'inf', and every
\* rate (bpp) and timing (ms) group a plain number only: a line with such tokens is
\* handled and each group is stored with its value, +infinity for 'inf'; a line with
\* 'inf' in a rate or timing group is not recognized and changes nothing.
C27_Amended ==
    /\ [](JustHandled =>
            LET l == OutLines[lineNo - 1]
            IN  ((\A i \in QualityFields(l.pat) : IsNumber(l.f[i]) \/ l.f[i] = InfTok)
                 /\ (\A i \in RateOrTimingFields(l.pat) : IsNumber(l.f[i])))
                => \A i \in QualityFields(l.pat) \cup RateOrTimingFields(l.pat) :
                      Stored(l, i) = IF l.f[i] = InfTok THEN Infinity ELSE FloatOf(l.f[i]))
    /\ [][(runPc = "parse" /\ lineNo' = lineNo + 1
             /\ \E i \in RateOrTimingFields(OutLines[lineNo].pat) :
                   OutLines[lineNo].f[i] = InfTok)
            => (result' = result /\ compressionRun' = compressionRun)]_vars

\* A Result was returned for a SelectedRate line with 'inf' for its quality, stored
\* as +infinity with its rate, followed by a BaseRate line with 'inf' for its rate,
\* which left the rate as it was.
C27_Witness ==
    /\ runPc = "returned" /\ Len(OutLines) = 2
    /\ OutLines[1] = Line("_bppRegex", <<DecTok(350), InfTok>>)
    /\ OutLines[2] = Line("_baseCompRateRegex", <<InfTok>>)
    /\ result[1].overallPsnr = Infinity /\ result[1].bitsPerPixel = 350

\* The line handled last carries 'inf' in its PSNR group and plain numbers elsewhere.
InfiniteQuality(l) ==
    /\ QualityFields(l.pat) # {}
    /\ \A i \in QualityFields(l.pat) : l.f[i] = InfTok
    /\ \A i \in RateOrTimingFields(l.pat) : IsNumber(l.f[i])

\* C28: a SelectedRate, CombinedQuality, PerLevelQuality, OverallQuality or
\* TrainingStep line with 'inf' for its PSNR is handled without error and its quality
\* is stored as +infinity: in overallPsnr, combinedBcPsnr, the new element of
\* perMipPsnr, overallPsnr or overallPsnrFP8, and the new sample of the learning curve.
C28_InfiniteQuality ==
    (JustHandled /\ InfiniteQuality(OutLines[lineNo - 1])) =>
        LET l == OutLines[lineNo - 1]
        IN  /\ raised = NoError
            /\ l.pat = "_bppRegex" => result[1].overallPsnr = Infinity
            /\ l.pat = "_bcQualityRegex" => result[1].combinedBcPsnr = Infinity
            /\ l.pat = "_mipRegex" =>
                  /\ result[1].perMipPsnr # NoList
                  /\ result[1].perMipPsnr[1][Len(result[1].perMipPsnr[1])] = Infinity
            /\ (l.pat = "_overallPsnrRegex" /\ l.f[1] = "FP8") =>
                  result[1].overallPsnrFP8 = Infinity
            /\ (l.pat = "_overallPsnrRegex" /\ l.f[1] # "FP8") =>
                  result[1].overallPsnr = Infinity
            /\ l.pat = "_stepRegex" =>
                  /\ compressionRun.learningCurve # NoList
                  /\ LastOf(compressionRun.learningCurve, <<None, None, None>>)
                        = <<IntOf(l.f[1]), l.f[2].v, Infinity>>

\* A Result was returned after a PerLevelQuality line and an OverallQuality line of
\* the FP8 kind, both with 'inf', and holds +infinity for both.
C28_Witness ==
    /\ runPc = "returned" /\ Len(OutLines) = 2
    /\ OutLines[1] = Line("_mipRegex", <<IntTok(1), InfTok>>)
    /\ OutLines[2] = Line("_overallPsnrRegex", <<"FP8", InfTok>>)
    /\ result[1].perMipPsnr = <<(<<Infinity>>)>>
    /\ result[1].overallPsnrFP8 = Infinity

\* The example line 'Selected compression rate: 4.00 bpp, 31.50 dB PSNR'.
SelectedExample == Line("_bppRegex", <<DecTok(400), DecTok(3150)>>)

\* C29: handling a SelectedRate line sets the rate and the standard overall quality
\* of the result to the line's two values and nothing else; handling a BaseRate line
\* sets the rate only, so the overall quality (and every other field) stays as it
\* was. After the example line the rate is 4.00 and the overall quality 31.50.
C29_SelectedSetsBoth ==
    /\ [][ /\ Handling("_bppRegex") =>
                result' = <<[result[1] EXCEPT
                                !.bitsPerPixel = FloatOf(OutLines[lineNo].f[1]),
                                !.overallPsnr = FloatOf(OutLines[lineNo].f[2])]>>
           /\ Handling("_baseCompRateRegex") =>
                /\ result'[1].bitsPerPixel = FloatOf(OutLines[lineNo].f[1])
                /\ result'[1].overallPsnr = result[1].overallPsnr
                /\ result' = <<[result[1] EXCEPT
                                !.bitsPerPixel = FloatOf(OutLines[lineNo].f[1])]>>
         ]_vars
    /\ []((JustHandled /\ OutLines[lineNo - 1] = SelectedExample) =>
            (result[1].bitsPerPixel = 400 /\ result[1].overallPsnr = 3150))

\* A Result was returned for the example line followed by a BaseRate line of 2.00:
\* the rate is the later 2.00 and the overall quality is still 31.50.
C29_Witness ==
    /\ runPc = "returned"
    /\ OutLines = <<SelectedExample, Line("_baseCompRateRegex", <<DecTok(200)>>)>>
    /\ result[1].bitsPerPixel = 200
    /\ result[1].overallPsnr = 3150

\* C30: handling an OverallQuality line whose kind is FP8 changes overallPsnrFP8 and
\* no other field of the result, overallPsnr included; handling one of any other
\* kind changes overallPsnr and no other field, overallPsnrFP8 included.
C30_KindSelectsField ==
    [][ Handling("_overallPsnrRegex") =>
            IF OutLines[lineNo].f[1] = "FP8"
              THEN /\ result'[1].overallPsnr = result[1].overallPsnr
                   /\ result' = <<[result[1] EXCEPT
                                    !.overallPsnrFP8 = FloatOf(OutLines[lineNo].f[2])]>>
              ELSE /\ result'[1].overallPsnrFP8 = result[1].overallPsnrFP8
                   /\ result' = <<[result[1] EXCEPT
                                    !.overallPsnr = FloatOf(OutLines[lineNo].f[2])]>>
      ]_vars

\* A Result was returned for an fp16 line of 29.00 followed by an FP8 line of 30.00
\* and holds each value in its own field.
C30_Witness ==
    /\ runPc = "returned"
    /\ OutLines = << Line("_overallPsnrRegex", <<"fp16", DecTok(2900)>>),
                     Line("_overallPsnrRegex", <<"FP8", DecTok(3000)>>) >>
    /\ result[1].overallPsnr = 2900
    /\ result[1].overallPsnrFP8 = 3000

\* The four features, in the order of their indicator letters in a system line.
FeatureNames == <<"DP4a", "FP16", "CoopVecInt8", "CoopVecFP8">>

\* The positions of the SystemDescriptor lines handled so far.
SystemNosSoFar == {i \in Recognized({"_systemRegex"}) : i < lineNo}

\* C31: once a SystemDescriptor line has been handled, gpuFeatures lists, each once,
\* exactly the features whose letter in the last such line is 'Y' (nothing is left
\* of an earlier line's features), and gpuName and graphicsApi are the device name
\* and the backend of that last line.
C31_SystemDescriptor ==
    (runPc \in {"parse", "returned"} /\ SystemNosSoFar # {}) =>
        LET l == OutLines[Last(SystemNosSoFar)]
            lst == result[1].gpuFeatures
        IN  /\ lst # NoList
            /\ {lst[1][i] : i \in 1..Len(lst[1])}
                  = {FeatureNames[k] : k \in {n \in 1..4 : l.f[n + 2] = "Y"}}
            /\ Len(lst[1]) = Cardinality({n \in 1..4 : l.f[n + 2] = "Y"})
            /\ result[1].gpuName = l.f[1]
            /\ result[1].graphicsApi = l.f[2]

\* A Result was returned for two SystemDescriptor lines with disjoint features and
\* carries the device, the backend and the two features of the second.
C31_Witness ==
    /\ runPc = "returned"
    /\ OutLines = << Line("_systemRegex", <<"RTX 4090", "Vulkan", "Y", "Y", "N", "N">>),
                     Line("_systemRegex", <<"GTX 1080", "D3D12", "N", "N", "Y", "Y">>) >>
    /\ result[1].gpuFeatures = <<(<<"CoopVecInt8", "CoopVecFP8">>)>>
    /\ result[1].gpuName = "GTX 1080"
    /\ result[1].graphicsApi = "D3D12"

\* The positions of the PerLevelQuality lines handled so far.
MipNosSoFar == {i \in Recognized({"_mipRegex"}) : i < lineNo}

\* C32: perMipPsnr is unset while no PerLevelQuality line has been handled; after
\* that its length is the number of such lines handled, and the i-th of them, in
\* the order of the output, supplies element i, whatever level number it states.
C32_PerLevelOrder ==
    runPc \in {"parse", "returned"} =>
        IF MipNosSoFar = {} THEN result[1].perMipPsnr = NoList
        ELSE /\ result[1].perMipPsnr # NoList
             /\ Len(result[1].perMipPsnr[1]) = Cardinality(MipNosSoFar)
             /\ \A p \in MipNosSoFar :
                    result[1].perMipPsnr[1][Cardinality({q \in MipNosSoFar : q <= p})]
                        = FloatOf(OutLines[p].f[2])

\* A Result was returned for a line of level 1 followed by a line of level 0 and
\* holds their two values in that order.
C32_Witness ==
    /\ runPc = "returned"
    /\ OutLines = << Line("_mipRegex", <<IntTok(1), InfTok>>),
                     Line("_mipRegex", <<IntTok(0), DecTok(4000)>>) >>
    /\ result[1].perMipPsnr = <<(<<Infinity, 4000>>)>>

\* The fields of a Result (elapsedTime aside).
ResultFields ==
    {"overallPsnr", "overallPsnrFP8", "perMipPsnr", "bitsPerPixel", "combinedBcPsnr",
     "combinedBcBitsPerPixel", "compressionRuns", "decompressionTime", "savedFileSize",
     "savedFileBpp", "gpuName", "graphicsApi", "gpuFeatures", "dimensions", "channels",
     "mipLevels", "latentShape", "networkVersion"}

\* The fields of the Result that the rule of each pattern names.
FieldsOf(pat) ==
    CASE pat = "_baseCompRateRegex" -> {"bitsPerPixel"}
      [] pat = "_bppRegex" -> {"bitsPerPixel", "overallPsnr"}
      [] pat = "_bcQualityRegex" -> {"combinedBcPsnr", "combinedBcBitsPerPixel"}
      [] pat = "_cudaDecompressionTimeRegex" -> {"decompressionTime"}
      [] pat = "_dimensionsRegex" -> {"dimensions", "channels", "mipLevels"}
      [] pat = "_experimentRegex" -> {"compressionRuns"}
      [] pat = "_fileSizeRegex" -> {"savedFileSize", "savedFileBpp"}
      [] pat = "_graphicsDecompressionTimeRegex" -> {"decompressionTime"}
      [] pat = "_latentShapeRegex" -> {"latentShape"}
      [] pat = "_mipRegex" -> {"perMipPsnr"}
      [] pat = "_networkVersionRegex" -> {"networkVersion"}
      [] pat = "_overallPsnrRegex" -> {"overallPsnr", "overallPsnrFP8"}
      [] pat = "_stepRegex" -> {}
      [] pat = "_systemRegex" -> {"gpuName", "graphicsApi", "gpuFeatures"}
      [] OTHER -> {}

\* No event of the output bears on field fld: no recognized line whose rule names
\* it, and for compressionRuns no TrainingStep line either (the run sealed at the
\* end is made of them).
NeverTouched(fld) ==
    /\ \A i \in 1..Len(OutLines) :
          Matches(OutLines[i]) => fld \notin FieldsOf(OutLines[i].pat)
    /\ fld = "compressionRuns" => Recognized({"_stepRegex"}) = {}

\* The default of a field as the claim lists them: '' for the three texts, None for
\* the sequences and for the numbers.
ListedDefault(fld) ==
    IF fld \in {"gpuName", "graphicsApi", "networkVersion"} THEN ""
    ELSE IF fld \in {"perMipPsnr", "compressionRuns", "gpuFeatures", "dimensions",
                     "latentShape"} THEN NoList
    ELSE None

\* Handling a recognized line leaves every field that its rule does not name.
OnlyNamedFieldsChange ==
    (runPc = "parse" /\ lineNo' = lineNo + 1 /\ Matches(OutLines[lineNo])) =>
        \A fld \in ResultFields \ FieldsOf(OutLines[lineNo].pat) :
            result'[1][fld] = result[1][fld]

\* C33 (as stated): each recognized line changes only the fields its rule names, and
\* in the returned Result every field that no event of the output bears on has the
\* listed default: None for the numbers and the sequences, '' for the texts.
C33_Original ==
    /\ [][OnlyNamedFieldsChange]_vars
    /\ [](runPc = "returned" =>
            \A fld \in ResultFields :
                NeverTouched(fld) => result[1][fld] = ListedDefault(fld))

\* C33 (amended): as above, except that bitsPerPixel, when no BaseRate or
\* SelectedRate line occurs, holds args.bitsPerPixel (which may be a rate).
C33_Amended ==
    /\ [][OnlyNamedFieldsChange]_vars
    /\ [](runPc = "returned" =>
            \A fld \in ResultFields :
                NeverTouched(fld) =>
                    result[1][fld] = IF fld = "bitsPerPixel" THEN args.bitsPerPixel
                                     ELSE ListedDefault(fld))

\* A Result was returned for arguments with a rate of 4.0 and an output of one
\* Dimensions line: the three fields of the line are set, graphicsApi is '' and
\* bitsPerPixel is the rate of the arguments.
C33_Witness ==
    /\ runPc = "returned" /\ args.bitsPerPixel = 400
    /\ Len(OutLines) = 1 /\ OutLines[1].pat = "_dimensionsRegex"
    /\ result[1].dimensions = <<(<<512, 256>>)>>
    /\ result[1].channels = 4 /\ result[1].mipLevels = 10
    /\ result[1].graphicsApi = "" /\ result[1].decompressionTime = None
    /\ result[1].bitsPerPixel = 400

\* C34: with the threads scheduled, the external processes ending and the callbacks
\* coming back (LiveSpec), a call whose input passes the validation and whose
\* threads can all be started eventually returns with every worker stopped and the
\* mutex free, and every worker that was started eventually stops, whatever the
\* interleaving of claims, failures, callback exceptions and SIGINTs.
C34_Terminates ==
    /\ <>(BadInput \/ mainExc \/ (pcMain = "returned" /\ AllWorkersStopped /\ mutex = 0))
    /\ \A w \in 1..MaxDevices :
          (w \in Workers /\ pc[w] # "idle") ~> (w \in Workers /\ pc[w] = "stopped")

\* The call returned after a run of two workers that saw a SIGINT, a failed task and
\* a callback that raised.
C34_Witness ==
    /\ pcMain = "returned" /\ nDev = 2 /\ AllWorkersStopped
    /\ sigints # "none" /\ SomeJobFailed /\ cbRaised # {}

\* The tasks still in the caller's list, and the tasks whose execution raised.
Queued == {tasks[i] : i \in 1..Len(tasks)}
RaisedJobs == {j \in Jobs : outcome[j] \in {"fail", "exc"}}

\* C35: when the call has returned, the tasks left in the list, the completed-count
\* and the tasks whose execution raised add up to N, and every task is in exactly
\* one of the three groups: left in the list, called back (once, whether or not the
\* callback raised; these make the completed-count), or raised in its execution.
C35_Accounting ==
    pcMain = "returned" =>
        /\ Len(tasks) + tasksCompleted + Cardinality(RaisedJobs) = N
        /\ Len(tasks) = Cardinality(Queued)
        /\ tasksCompleted = Len(cbLog)
        /\ cbRaised \subseteq {cbLog[i].task : i \in 1..Len(cbLog)}
        /\ \A j \in Jobs :
              Cardinality({g \in {"queued", "called", "raised"} :
                    \/ g = "queued" /\ j \in Queued
                    \/ g = "called" /\ CallbackCount(j) = 1
                    \/ g = "raised" /\ j \in RaisedJobs}) = 1

\* The call returned with one task left in the list, one task counted although its
\* callback raised, and one task that failed.
C35_Witness ==
    /\ pcMain = "returned" /\ N = 3
    /\ Len(tasks) = 1 /\ tasksCompleted = 1 /\ Cardinality(cbRaised) = 1
    /\ Cardinality(RaisedJobs) = 1

\* C36: if the call had at least one device and returned False, the task list is
\* empty and every task was executed exactly once, succeeded, and had its callback
\* invoked exactly once without raising.
C36_FalseMeansAllDone ==
    (pcMain = "returned" /\ retval = "False" /\ nDev >= 1) =>
        /\ tasks = <<>>
        /\ \A j \in Jobs :
              /\ execCount[j] = 1
              /\ outcome[j] = "ok"
              /\ CallbackCount(j) = 1
              /\ j \notin cbRaised

\* The call returned False after two workers had run three tasks between them.
C36_Witness ==
    /\ pcMain = "returned" /\ retval = "False" /\ nDev = 2 /\ N = 3
    /\ tasksCompleted = 3
    /\ \E i, k \in 1..Len(cbLog) : cbLog[i].worker # cbLog[k].worker

\* The queue pops made while the flag was set, and those of worker w among them.
LateClaims == {i \in 1..Len(claimLog) : claimLog[i].flag}
LateClaimsOf(w) == {i \in LateClaims : claimLog[i].worker = w}

\* C37: each worker pops at most one task while the flag is set, so the pops made
\* with the flag set never outnumber the workers; and a worker that finds the flag
\* set at its loop head stops there, so only a worker that was past its flag check
\* when the flag was set can make such a pop.
C37_LateClaims ==
    /\ [](/\ \A w \in Workers : Cardinality(LateClaimsOf(w)) <= 1
          /\ Cardinality(LateClaims) <= nDev)
    /\ [][\A w \in Workers :
            (pc[w] = "check" /\ terminate /\ pc'[w] # "check") => pc'[w] = "stopped"]_vars
    /\ [][\A w \in Workers :
            (Len(claimLog') > Len(claimLog) /\ claimLog'[Len(claimLog')].worker = w
                /\ terminate)
            => (LateClaimsOf(w) = {} /\ pc[w] = "pop")]_vars

\* Two workers were past their flag checks when the flag was set, and each has
\* popped a task since.
C37_Witness ==
    /\ nDev = 2 /\ Cardinality(LateClaims) = 2
    /\ \A w \in Workers : Cardinality(LateClaimsOf(w)) = 1

\* C38: in every run, the k-th invocation of 'ready' is given k as the completed
\* count and N, the length of the list at the call, as the total, however short the
\* list has become; the count is advanced before the invocation, so it is never
\* behind the number of invocations, an invocation that raised included.
C38_CallbackArguments ==
    /\ \A k \in 1..Len(cbLog) : cbLog[k].completed = k /\ cbLog[k].total = N
    /\ tasksCompleted >= Len(cbLog)
    /\ tasksCompleted <= Len(cbLog) + 1
    /\ tasksCompleted = Len(cbLog) + 1 => \E w \in Workers : pc[w] = "call"
    /\ \A j \in cbRaised : \E k \in 1..Len(cbLog) : cbLog[k].task = j /\ tasksCompleted >= k

\* In a run of three tasks that the second invocation of 'ready' aborted by raising,
\* that invocation was given 2 of 3 while one task was still in the list.
C38_Witness ==
    /\ N = 3 /\ Len(tasks) = 1 /\ Len(cbLog) = 2 /\ tasksCompleted = 2
    /\ cbLog[2].completed = 2 /\ cbLog[2].total = 3
    /\ cbLog[2].task \in cbRaised
    /\ AllWorkersStopped

\* Worker w is inside the first with block (the pop), inside the second one (the
\* count and the callback).
InPopSection(w) == pc[w] \in {"pop", "unlock1"}
InCallbackSection(w) == pc[w] \in {"incr", "call", "ready", "unwind"}

\* C39: the pop and the callback are guarded by the one mutex: a worker inside either
\* with block holds it; while some worker is inside the callback no worker is inside
\* the pop section and the list is left as it is; and the list changes only in a
\* step of the worker that holds the mutex, while no worker is inside the callback.
C39_SameLock ==
    /\ [](\A w \in Workers : (InPopSection(w) \/ InCallbackSection(w)) => mutex = w)
    /\ [](\A w, v \in Workers : ~(InCallbackSection(w) /\ InPopSection(v)))
    /\ [][(\E w \in Workers : InCallbackSection(w)) => tasks' = tasks]_vars
    /\ [][tasks' # tasks =>
            /\ \E w \in Workers : mutex = w /\ pc[w] = "pop"
            /\ \A v \in Workers : pc[v] # "ready"]_vars

\* One worker is inside 'ready' while another waits at the mutex to pop one of the
\* tasks left in the list.
C39_Witness ==
    /\ tasks # <<>>
    /\ \E w, v \in Workers : pc[w] = "ready" /\ pc[v] = "lock1" /\ mutex = w

\* What each kind of error leaves in the diagnostics: the message of a failed process
\* is printed in a step that finds the flag unset, and only in such a step; a
\* non-process exception and a callback exception are reported whatever the flag.
DiagnosticRules ==
    /\ ("ntc" \in diag' /\ "ntc" \notin diag) => ~terminate
    /\ \A j \in Jobs :
          /\ (outcome[j] # "fail" /\ outcome'[j] = "fail" /\ ~terminate) => "ntc" \in diag'
          /\ (outcome[j] # "exc" /\ outcome'[j] = "exc") => "trace" \in diag'
    /\ cbRaised' # cbRaised => "ready" \in diag'

\* C40 (as stated): whenever the flag is set at least one diagnostic has been
\* emitted, and the diagnostics follow the rules above.
C40_Original ==
    /\ [](terminate => diag # {})
    /\ [][DiagnosticRules]_vars

\* C40 (amended): whenever the flag is set, at least one diagnostic has been emitted
\* or _sigint_handler, which sets the flag before it prints, has its note still to
\* print; once the main thread is at its return with the flag set, at least one
\* diagnostic has been emitted; and the diagnostics follow the rules above.
C40_Amended ==
    /\ [](terminate => (diag # {} \/ inHandler))
    /\ []((pcMain \in {"return", "returned"} /\ terminate) => diag # {})
    /\ [][DiagnosticRules]_vars

\* The call returned True after a SIGINT and a failed process whose message was
\* skipped because the flag was already set: the interrupt note is the only
\* diagnostic.
C40_Witness ==
    /\ pcMain = "returned" /\ retval = "True"
    /\ SomeJobFailed /\ diag = {"sigint"}

====
